---- MODULE Spec2Model ----
(***************************************************************************)
(* Attempt lifecycle of the essay-exam server (src/server/api.py).         *)
(*                                                                         *)
(* The store is the relational database behind the FastAPI handlers: the   *)
(* submissions table (one row per attempt), the answers table and the      *)
(* mutable columns of the exams table.  Every handler is one action; the   *)
(* grading oracle's reply and the request body are the inputs of the       *)
(* action.  Row ids are autoincrement primary keys, modelled as the index  *)
(* of the row in a sequence.                                               *)
(*                                                                         *)
(* Time is the value of datetime.utcnow() in units of 12 hours; two        *)
(* requests never read the same instant, so every handler advances the     *)
(* clock by one unit.                                                      *)
(***************************************************************************)
EXTENDS Integers, Sequences, FiniteSets, TLC

(* None / SQL NULL of a timestamp, a score or a time limit.  SQLite sorts  *)
(* NULL below every value, as -1 sorts below every timestamp here.         *)
NULL == -1

(* Bound of the model: the clock stops at MaxTime. *)
MaxTime == 4

(* "more than 24 hours ago" of start_exam: 24 * 60 minutes = 2 clock units *)
DayUnits == 2

(* end_time is rewritten when it is more than 60 seconds (less than one    *)
(* clock unit) off the expected value                                      *)
EndTimeSlack == 0

Students == {1}

(* Exam 1 is an assigned exam (exams.student_id IS NULL) with three        *)
(* questions, exam 2 a practice exam generated by student 1 with one.      *)
(* The question sets are fixed (the authoring flow is not modelled).       *)
Exams == {1, 2}

(* Exam 3 is a second practice exam of student 1, with two questions       *)
(* (5 and 6); the dispute handlers are exercised on it.                    *)
DisputeExams == Exams \cup {3}

Questions == {1, 2, 3, 4}

NoOwner == 0

ExamOwner(e) == IF e = 1 THEN NoOwner ELSE 1

ExamQuestions(e) == IF e = 1 THEN {1, 2, 3} ELSE IF e = 2 THEN {4} ELSE {5, 6}

IsPracticeFor(e, s) == ExamOwner(e) = s

Texts == {"a", "b"}

(* What call_together_ai followed by extract_json_from_response gives the  *)
(* handler: an exception, or a JSON object with or without total_score     *)
(* and feedback.                                                           *)
OracleFail == [kind |-> "fail", total_score |-> NULL, feedback |-> ""]

GradeReplies ==
    { OracleFail,
      [kind |-> "json", total_score |-> NULL, feedback |-> ""],
      [kind |-> "json", total_score |-> 1, feedback |-> "f1"] }

(* float(grade_data.get("total_score", 0.0)) *)
GradeScore(reply) == IF reply.total_score = NULL THEN 0 ELSE reply.total_score

(* grade_data.get("feedback", "") *)
GradeFeedback(reply) == reply.feedback

VARIABLES now, exams, submissions, answers, regrades, submission_regrades,
          assigned_disputes, resp

vars == <<now, exams, submissions, answers, regrades, submission_regrades,
          assigned_disputes, resp>>

(* The tables of the practice dispute handlers: regrades (one row per      *)
(* disputed answer) and submission_regrades (one row per disputed          *)
(* submission); and assigned_exam_disputes, the table of the disputes an   *)
(* instructor reviews.                                                     *)
disputes == <<regrades, submission_regrades, assigned_disputes>>

(* The outcome of the last request: the handler, whether it returned 2xx,  *)
(* the branch it took (the handler's DEBUG log line), the submission rows  *)
(* it created or wrote, the timestamps of its JSON body, and for the sweep *)
(* how many answers it graded and how many gradings raised.                *)
Reply(op, ok, branch, ids, st, su, en, graded, failed) ==
    [op |-> op, ok |-> ok, branch |-> branch, ids |-> ids,
     started_at |-> st, submitted_at |-> su, end_time |-> en,
     graded |-> graded, failed |-> failed]

NoResp == Reply("none", TRUE, "none", {}, NULL, NULL, NULL, 0, 0)

Error(op, branch) == Reply(op, FALSE, branch, {}, NULL, NULL, NULL, 0, 0)

NewSubmission(e, s, st, su, en) ==
    [exam_id |-> e, student_id |-> s, started_at |-> st,
     submitted_at |-> su, end_time |-> en]

(* An Answer row as the handlers create it: the instructor columns keep    *)
(* their defaults until update_answer_grade writes them.                   *)
NewAnswer(sid, q, text, score, fb) ==
    [submission_id |-> sid, question_id |-> q, student_answer |-> text,
     llm_score |-> score, llm_feedback |-> fb,
     instructor_edited |-> FALSE, instructor_score |-> NULL]

(* Rows left by an earlier deployment: an in-progress attempt of student 1 *)
(* on the assigned exam with two answers that were stored ungraded         *)
(* (answers.llm_score is nullable, and the sweep grades such rows).        *)
LegacySubmissions == << NewSubmission(1, 1, 0, NULL, NULL) >>

LegacyAnswers ==
    << NewAnswer(1, 1, "a", NULL, ""), NewAnswer(1, 2, "b", NULL, "") >>

Init ==
    /\ now = 1
    /\ exams = [e \in Exams |-> [due_date |-> NULL, time_limit_minutes |-> NULL]]
    /\ \/ submissions = << >> /\ answers = << >>
       \/ submissions = LegacySubmissions /\ answers = LegacyAnswers
    /\ regrades = << >>
    /\ submission_regrades = << >>
    /\ assigned_disputes = << >>
    /\ resp = NoResp

----
(* Queries *)

SubmissionsOf(e, s) ==
    { i \in DOMAIN submissions :
        submissions[i].exam_id = e /\ submissions[i].student_id = s }

(* Variant of InProgressOf without the submitted_at IS NULL filter. *)
InProgressOfAnyState(e, s) ==
    { i \in DOMAIN submissions :
        submissions[i].exam_id = e /\ submissions[i].student_id = s }

(* filter(..., Submission.submitted_at.is_(None)) *)
InProgressOf(e, s) ==
    { i \in SubmissionsOf(e, s) : submissions[i].submitted_at = NULL }

(* order_by(Submission.started_at.desc()).first(): the rows .first() may   *)
(* return; rows with equal started_at come in no defined order.            *)
FirstByStartedDesc(S) ==
    { i \in S : \A j \in S : submissions[j].started_at <= submissions[i].started_at }

AnswersOf(ans, sid) == { k \in DOMAIN ans : ans[k].submission_id = sid }

AnswerFor(ans, sid, q) ==
    { k \in AnswersOf(ans, sid) : ans[k].question_id = q }

HasTimeLimit(e) ==
    exams[e].time_limit_minutes # NULL /\ exams[e].time_limit_minutes > 0

EndTimeFor(e, start) ==
    IF HasTimeLimit(e) THEN start + exams[e].time_limit_minutes ELSE NULL

Abs(x) == IF x < 0 THEN -x ELSE x

----
(* POST /api/exam/{exam_id}/start *)

(* "more than 24 hours ago or in the future" *)
StartedAtImplausible(start) ==
    start # NULL /\ (now - start > DayUnits \/ now - start < 0)

(* "missing or more than 1 minute off" *)
EndTimeStale(end, expected) ==
    end = NULL \/ Abs(end - expected) > EndTimeSlack

StartNew(e, s) ==
    /\ submissions' = Append(submissions, NewSubmission(e, s, now, NULL, EndTimeFor(e, now)))
    /\ resp' = Reply("start", TRUE, "created", {Len(submissions) + 1},
                     now, NULL, EndTimeFor(e, now), 0, 0)

(* Variant of StartNoAnswers that keeps a started_at the row already has. *)
StartNoAnswersKeepsStart(e, i) ==
    LET start == IF submissions[i].started_at # NULL THEN submissions[i].started_at ELSE now
    IN  /\ submissions' = [submissions EXCEPT ![i].started_at = start,
                                              ![i].end_time = EndTimeFor(e, start)]
        /\ resp' = Reply("start", TRUE, "reset_no_answers", {i},
                         start, NULL, EndTimeFor(e, start), 0, 0)

StartNoAnswers(e, i) ==
    /\ submissions' = [submissions EXCEPT ![i].started_at = now,
                                          ![i].end_time = EndTimeFor(e, now)]
    /\ resp' = Reply("start", TRUE, "reset_no_answers", {i},
                     now, NULL, EndTimeFor(e, now), 0, 0)

StartWithAnswers(e, i) ==
    LET sub == submissions[i]
        start_time == IF StartedAtImplausible(sub.started_at) THEN now ELSE sub.started_at
        branch == IF start_time = sub.started_at THEN "kept" ELSE "reset_implausible"
    IN  IF HasTimeLimit(e)
        THEN IF start_time = NULL
             THEN (* None + timedelta raises TypeError: 500, nothing committed *)
                  /\ UNCHANGED submissions
                  /\ resp' = Error("start", "type_error")
             ELSE LET expected == start_time + exams[e].time_limit_minutes IN
                  IF EndTimeStale(sub.end_time, expected)
                  THEN /\ submissions' = [submissions EXCEPT ![i].started_at = start_time,
                                                            ![i].end_time = expected]
                       /\ resp' = Reply("start", TRUE, branch, {i},
                                        start_time, NULL, expected, 0, 0)
                  ELSE (* no commit: the session is closed with started_at unsaved *)
                       /\ UNCHANGED submissions
                       /\ resp' = Reply("start", TRUE, branch, {i},
                                        start_time, NULL, sub.end_time, 0, 0)
        ELSE /\ submissions' = [submissions EXCEPT ![i].started_at = start_time,
                                                  ![i].end_time = NULL]
             /\ resp' = Reply("start", TRUE, branch, {i}, start_time, NULL, NULL, 0, 0)

StartExam(e, s) ==
    /\ now < MaxTime
    /\ now' = now + 1
    /\ UNCHANGED <<exams, answers, disputes>>
    /\ IF InProgressOf(e, s) = {}
       THEN StartNew(e, s)
       ELSE \E i \in FirstByStartedDesc(InProgressOf(e, s)) :
              IF AnswersOf(answers, i) = {}
              THEN StartNoAnswers(e, i)
              ELSE StartWithAnswers(e, i)

----
(* GET /api/exam/{exam_id}/resume *)

ResumeExam(e, s) ==
    /\ now < MaxTime
    /\ now' = now + 1
    /\ UNCHANGED <<exams, answers, disputes>>
    /\ IF InProgressOf(e, s) # {}
       THEN \E i \in FirstByStartedDesc(InProgressOf(e, s)) :
              /\ UNCHANGED submissions
              /\ resp' = Reply("resume", TRUE, "found", {i},
                               NULL, NULL, submissions[i].end_time, 0, 0)
       ELSE IF IsPracticeFor(e, s)
            THEN /\ submissions' = Append(submissions, NewSubmission(e, s, now, NULL, NULL))
                 /\ resp' = Reply("resume", TRUE, "created", {Len(submissions) + 1},
                                  NULL, NULL, NULL, 0, 0)
            ELSE /\ UNCHANGED submissions
                 /\ resp' = Error("resume", "not_found")

----
(* POST /api/exam/{exam_id}/submit *)

(* "Mark as submitted (submission exists and is in-progress)" *)
MarkSubmitted(sub, t) == [sub EXCEPT !.submitted_at = t]

(* Variant of AlreadySubmitted that skips the early return. *)
AlreadySubmittedNever(sub) == FALSE

(* "Check if already submitted": if submission.submitted_at *)
AlreadySubmitted(sub) == sub.submitted_at # NULL

SubmitExam(e, s) ==
    /\ now < MaxTime
    /\ now' = now + 1
    /\ UNCHANGED <<exams, answers, disputes>>
    /\ IF SubmissionsOf(e, s) = {}
       THEN /\ submissions' = Append(submissions, NewSubmission(e, s, now, now, NULL))
            /\ resp' = Reply("submit", TRUE, "created_submitted", {Len(submissions) + 1},
                             NULL, now, NULL, 0, 0)
       ELSE \E i \in FirstByStartedDesc(SubmissionsOf(e, s)) :
              IF AlreadySubmitted(submissions[i])
              THEN /\ UNCHANGED submissions
                   /\ resp' = Reply("submit", TRUE, "already_submitted", {i},
                                    NULL, submissions[i].submitted_at, NULL, 0, 0)
              ELSE /\ submissions' = [submissions EXCEPT ![i] = MarkSubmitted(@, now)]
                   /\ resp' = Reply("submit", TRUE, "submitted", {i},
                                    NULL, now, NULL, 0, 0)

----
(* POST /api/submit-response *)

(* Variant of UpsertAnswer that adds a row without looking for one. *)
UpsertAnswerAlwaysInsert(ans, sid, q, text, reply) ==
    Append(ans, NewAnswer(sid, q, text, GradeScore(reply), GradeFeedback(reply)))

(* "Check if answer already exists for this submission+question": update   *)
(* the existing row in place, else add a new one.                          *)
UpsertAnswer(ans, sid, q, text, reply) ==
    IF AnswerFor(ans, sid, q) # {}
    THEN LET k == CHOOSE k \in AnswerFor(ans, sid, q) : TRUE IN
         [ans EXCEPT ![k].student_answer = text,
                     ![k].llm_score = GradeScore(reply),
                     ![k].llm_feedback = GradeFeedback(reply)]
    ELSE Append(ans, NewAnswer(sid, q, text, GradeScore(reply), GradeFeedback(reply)))

(* Variant of AllAnswered with > for >=. *)
AllAnsweredStrict(e, ans, sid) ==
    Cardinality({ k \in DOMAIN ans : ans[k].submission_id = sid })
        > Cardinality(ExamQuestions(e))

(* len(answered_questions) >= len(all_questions) *)
AllAnswered(e, ans, sid) ==
    Cardinality(AnswersOf(ans, sid)) >= Cardinality(ExamQuestions(e))

(* The submission the answer is stored under: the latest in-progress one,  *)
(* or 0 when a new row has to be created.                                  *)
RecordTargets(e, s) ==
    IF InProgressOf(e, s) = {} THEN {0} ELSE FirstByStartedDesc(InProgressOf(e, s))

RecordInto(e, s, q, text, reply, i) ==
    LET sid == IF i = 0 THEN Len(submissions) + 1 ELSE i
        subs1 == IF i = 0
                 THEN Append(submissions, NewSubmission(e, s, now, NULL, NULL))
                 ELSE IF submissions[i].started_at = NULL
                      THEN [submissions EXCEPT ![i].started_at = now]
                      ELSE submissions
        ans1 == UpsertAnswer(answers, sid, q, text, reply)
        done == AllAnswered(e, ans1, sid) /\ subs1[sid].submitted_at = NULL
        branch == IF AnswerFor(answers, sid, q) # {} THEN "updated" ELSE "inserted"
    IN  /\ answers' = ans1
        /\ submissions' = IF done THEN [subs1 EXCEPT ![sid] = MarkSubmitted(@, now)]
                          ELSE subs1
        /\ resp' = Reply("record", TRUE, branch, {sid}, NULL,
                         IF done THEN now ELSE NULL, NULL, 0, 0)

RecordAnswer(e, s, q, text, reply) ==
    /\ now < MaxTime
    /\ now' = now + 1
    /\ UNCHANGED <<exams, disputes>>
    /\ IF q \notin ExamQuestions(e)
       THEN /\ UNCHANGED <<submissions, answers>>
            /\ resp' = Error("record", "question_not_found")
       ELSE IF reply.kind = "fail"
            THEN /\ UNCHANGED <<submissions, answers>>
                 /\ resp' = Error("record", "oracle_failed")
            ELSE \E i \in RecordTargets(e, s) : RecordInto(e, s, q, text, reply, i)

----
(* GET /api/my-exams/assigned: the overdue sweep *)

AssignedExamsOf(s) ==
    { e \in Exams : ExamOwner(e) = NoOwner /\ SubmissionsOf(e, s) # {} }

(* Variant of IsOverdue that does not compare the due date with the clock. *)
IsOverdueAnyDueDate(e) == exams[e].due_date # NULL

(* exam.due_date and exam.due_date < datetime.utcnow() *)
IsOverdue(e) == exams[e].due_date # NULL /\ exams[e].due_date < now

(* The first submission of each exam in started_at order is the one the    *)
(* loop handles; the others are skipped ("already processed this exam").   *)
SweepPicks(s) ==
    { pick \in [AssignedExamsOf(s) -> DOMAIN submissions] :
        \A e \in AssignedExamsOf(s) : pick[e] \in FirstByStartedDesc(SubmissionsOf(e, s)) }

(* Variant of Swept without the submitted_at is None test. *)
SweptIgnoringSubmitted(s, pick) ==
    { pick[e] : e \in { x \in AssignedExamsOf(s) : IsOverdue(x) } }

Swept(s, pick) ==
    { pick[e] : e \in { x \in AssignedExamsOf(s) :
                          IsOverdue(x) /\ submissions[pick[x]].submitted_at = NULL } }

(* Variant of Ungraded that is not restricted to the swept submissions. *)
UngradedOfAnySubmission(ids) ==
    { k \in DOMAIN answers : answers[k].llm_score = NULL }

(* Answer.submission_id == submission.id, Answer.llm_score.is_(None) *)
Ungraded(ids) ==
    { k \in DOMAIN answers : answers[k].submission_id \in ids /\ answers[k].llm_score = NULL }

(* One pass of the grading loop body: a reply that raises leaves the       *)
(* answer as it is.                                                        *)
SweepGrade(a, reply) ==
    IF reply.kind = "fail" THEN a
    ELSE [a EXCEPT !.llm_score = GradeScore(reply), !.llm_feedback = GradeFeedback(reply)]

(* Variant of SweepAnswers whose loop ends at the first grading that      *)
(* raises (the try/except around the loop instead of inside it).           *)
SweepAnswersAbortOnError(ids, replies) ==
    [k \in DOMAIN answers |->
       IF /\ k \in Ungraded(ids)
          /\ \A j \in Ungraded(ids) : j <= k => replies[j].kind # "fail"
       THEN SweepGrade(answers[k], replies[k]) ELSE answers[k]]

(* The grading loop over the ungraded answers of the swept submissions:   *)
(* the try/except is inside the loop, so every answer is attempted.        *)
SweepAnswers(ids, replies) ==
    [k \in DOMAIN answers |->
       IF k \in Ungraded(ids) THEN SweepGrade(answers[k], replies[k]) ELSE answers[k]]

ForceSubmit(sub) ==
    [sub EXCEPT !.submitted_at = now,
                !.started_at = IF sub.started_at = NULL THEN now ELSE sub.started_at]

SweepOverdue(s) ==
    /\ now < MaxTime
    /\ now' = now + 1
    /\ UNCHANGED <<exams, disputes>>
    /\ \E pick \in SweepPicks(s) :
         LET ids == Swept(s, pick) IN
         \E replies \in [Ungraded(ids) -> GradeReplies] :
           /\ submissions' = [i \in DOMAIN submissions |->
                                IF i \in ids THEN ForceSubmit(submissions[i])
                                ELSE submissions[i]]
           /\ answers' = SweepAnswers(ids, replies)
           /\ resp' = Reply("sweep", TRUE, IF ids = {} THEN "listed" ELSE "auto_submitted",
                            ids, NULL, NULL, NULL,
                            Cardinality({k \in Ungraded(ids) : replies[k].kind # "fail"}),
                            Cardinality({k \in Ungraded(ids) : replies[k].kind = "fail"}))

----
(* POST /api/instructor/assign-exam *)

(* request.student_ids: a list, which may name a student twice *)
StudentLists == { <<1>>, <<1, 1>> }

TimeLimitChoices == {NULL, 1}

(* request.due_date: none, the instant of the request, or one unit later *)
DueChoices(t) == {NULL, t, t + 1}

(* "Check if submission already exists": the query reads the database; the *)
(* session is created with autoflush=False, so rows added earlier in the   *)
(* same request are not seen.                                              *)
AlreadyAssigned(e, s) == SubmissionsOf(e, s) # {}

AssignedRows(e, ids) ==
    LET fresh == SelectSeq(ids, LAMBDA s : ~AlreadyAssigned(e, s))
    IN  [p \in 1..Len(fresh) |-> NewSubmission(e, fresh[p], NULL, NULL, NULL)]

AssignExam(e, ids, tl, due) ==
    /\ now < MaxTime
    /\ now' = now + 1
    /\ UNCHANGED <<answers, disputes>>
    /\ IF ExamOwner(e) # NoOwner
       THEN /\ UNCHANGED <<exams, submissions>>
            /\ resp' = Error("assign", "practice_exam")
       ELSE /\ exams' = [exams EXCEPT ![e] = [due_date |-> due, time_limit_minutes |-> tl]]
            /\ submissions' = submissions \o AssignedRows(e, ids)
            /\ resp' = Reply("assign", TRUE, "assigned",
                             Len(submissions) + 1 .. Len(submissions) + Len(AssignedRows(e, ids)),
                             NULL, NULL, NULL, 0, 0)

----
(* The practice dispute handlers: POST /api/practice/dispute               *)
(*                                                                         *)
(* Scores are counted in half points, so that int() of a total truncates.  *)

(* Question.q_index: the questions of an exam are numbered from 1 in the   *)
(* order they were created.                                                *)
QIndex(e, q) == Cardinality({ p \in ExamQuestions(e) : p <= q })

(* next((q for q in questions if q.q_index == request.question_number)) *)
QuestionAt(e, n) == CHOOSE q \in ExamQuestions(e) : QIndex(e, q) = n

(* Exam.instructor_id: an exam a student generated belongs to the default  *)
(* instructor (1), an assigned exam to the instructor who created it (2).  *)
ExamInstructor(e) == IF ExamOwner(e) = NoOwner THEN 2 ELSE 1

(* Question.points_possible, in half points *)
PointsPossible(q) == 4

(* What call_together_ai and extract_json_from_response give               *)
(* adjudicate_dispute_question: an exception, or a JSON object.  keys are  *)
(* the keys the object has; a score of NULL is a value float() rejects.    *)
QuestionKeys == {"decision", "question_score_old", "question_score_new", "feedback_new"}

RawDecisions == {"keep", "update", " Update ", "reject"}

QuestionVerdict(keys, decision, old, new) ==
    [kind |-> "json", keys |-> keys, decision |-> decision,
     question_score_old |-> old, question_score_new |-> new, feedback_new |-> "g"]

VerdictFail ==
    [kind |-> "fail", keys |-> {}, decision |-> "keep",
     question_score_old |-> NULL, question_score_new |-> NULL, feedback_new |-> ""]

QuestionVerdicts ==
    { VerdictFail,
      QuestionVerdict(QuestionKeys, "keep", 3, 0),
      QuestionVerdict(QuestionKeys \ {"question_score_old"}, "keep", NULL, 3),
      QuestionVerdict(QuestionKeys, "update", 1, 3),
      QuestionVerdict(QuestionKeys \ {"question_score_old"}, " Update ", NULL, 0),
      QuestionVerdict(QuestionKeys, "reject", 1, 3),
      QuestionVerdict(QuestionKeys, "update", 1, NULL),
      QuestionVerdict(QuestionKeys \ {"feedback_new"}, "update", 1, 3) }

(* Variant of NormaliseDecision that takes an unknown decision for update. *)
NormaliseDecisionUnknownIsUpdate(d) ==
    IF d = "keep" THEN "keep" ELSE "update"

(* str(parsed["decision"]).strip().lower(), and anything that is then not  *)
(* keep or update becomes keep                                             *)
NormaliseDecision(d) ==
    LET lowered == IF d = " Update " THEN "update" ELSE d
    IN  IF lowered \in {"keep", "update"} THEN lowered ELSE "keep"

(* Variant of AdjudicateDisputeQuestion that answers keep when there is   *)
(* no reply.                                                               *)
AdjudicateDisputeQuestionFailKeeps(v, original_score) ==
    LET old == IF "question_score_old" \in v.keys THEN v.question_score_old
               ELSE original_score
        decision == NormaliseDecision(v.decision)
    IN  IF v.kind = "fail"
        THEN [kind |-> "ok", decision |-> "keep", question_score_old |-> original_score,
              question_score_new |-> original_score, feedback_new |-> ""]
        ELSE IF \/ ~({"decision", "question_score_new", "feedback_new"} \subseteq v.keys)
                \/ old = NULL
                \/ v.question_score_new = NULL
        THEN [kind |-> "error"]
        ELSE [kind |-> "ok", decision |-> decision,
              question_score_old |-> old,
              question_score_new |-> IF decision = "keep" THEN old
                                     ELSE v.question_score_new,
              feedback_new |-> v.feedback_new]

(* adjudicate_dispute_question after the oracle call: "error" for a reply  *)
(* that raises (no JSON, a required key missing, a score that is not a     *)
(* number), else the parsed object with question_score_old filled in from  *)
(* original_score when the reply has none, the decision normalised and,    *)
(* on keep, question_score_new set to question_score_old.                  *)
AdjudicateDisputeQuestion(v, original_score) ==
    LET old == IF "question_score_old" \in v.keys THEN v.question_score_old
               ELSE original_score
        decision == NormaliseDecision(v.decision)
    IN  IF \/ v.kind = "fail"
           \/ ~({"decision", "question_score_new", "feedback_new"} \subseteq v.keys)
           \/ old = NULL
           \/ v.question_score_new = NULL
        THEN [kind |-> "error"]
        ELSE [kind |-> "ok", decision |-> decision,
              question_score_old |-> old,
              question_score_new |-> IF decision = "keep" THEN old
                                     ELSE v.question_score_new,
              feedback_new |-> v.feedback_new]

(* One entry of the reply's question_updates: has_score is whether the    *)
(* entry has a score_new float() accepts; feedback_new "" is a missing or  *)
(* empty feedback.                                                         *)
QuestionUpdate(n, has, score, fb) ==
    [question_number |-> n, has_score |-> has, score_new |-> score, feedback_new |-> fb]

UpdateLists ==
    { << >>,
      << QuestionUpdate(1, TRUE, 3, "g") >>,
      << QuestionUpdate(1, TRUE, 3, "g"), QuestionUpdate(2, TRUE, 0, "") >>,
      << QuestionUpdate(1, TRUE, 0, ""), QuestionUpdate(1, TRUE, 3, "g") >>,
      << QuestionUpdate(3, TRUE, 3, "") >>,
      << QuestionUpdate(2, FALSE, NULL, "") >> }

OverallKeys ==
    {"decision", "total_old", "total_new", "question_updates", "overall_explanation"}

OverallVerdict(keys, decision, updates) ==
    [kind |-> "json", keys |-> keys, decision |-> decision, question_updates |-> updates]

OverallFail ==
    [kind |-> "fail", keys |-> {}, decision |-> "keep", question_updates |-> << >>]

OverallVerdicts ==
    { OverallFail, OverallVerdict(OverallKeys \ {"total_new"}, "update", << >>) }
    \cup { OverallVerdict(OverallKeys, "update", u) : u \in UpdateLists }
    \cup { OverallVerdict(OverallKeys, d, << QuestionUpdate(1, TRUE, 3, "g") >>) :
             d \in RawDecisions \ {"update"} }

(* adjudicate_dispute_overall after the oracle call: "error" for a reply   *)
(* that raises, else the parsed object with the decision normalised and,   *)
(* on keep, question_updates emptied.                                      *)
AdjudicateDisputeOverall(v) ==
    LET decision == NormaliseDecision(v.decision)
    IN  IF v.kind = "fail" \/ ~(OverallKeys \subseteq v.keys)
        THEN [kind |-> "error"]
        ELSE [kind |-> "ok", decision |-> decision,
              question_updates |-> IF decision = "keep" THEN << >>
                                   ELSE v.question_updates]

(* The outcome of a dispute or grade request: the HTTP status, the branch  *)
(* taken, the submission resolved and the answer addressed (0 when there   *)
(* is none), whether the oracle was called, and the decision, scores and   *)
(* totals of the JSON body.                                                *)
DisputeReply(op, status, branch, target, sub, answer, called, decision, old_score, new_score, old_total, new_total) ==
    [op |-> op, ok |-> status = 200, status |-> status, branch |-> branch,
     target |-> target, sub |-> sub, answer |-> answer, called |-> called,
     decision |-> decision, old_score |-> old_score, new_score |-> new_score,
     old_total |-> old_total, new_total |-> new_total]

(* raise HTTPException(status_code=status, ...) *)
DisputeError(status, branch, target, sub, answer, called) ==
    DisputeReply("dispute", status, branch, target, sub, answer, called,
                 "none", NULL, NULL, NULL, NULL)

(* Regrade(answer_id=..., regrade_score=..., regrade_feedback=...,         *)
(* llm_response=json.dumps(llm_result))                                    *)
NewRegrade(k, parsed) ==
    [answer_id |-> k, regrade_score |-> parsed.question_score_new,
     regrade_feedback |-> parsed.feedback_new, decision |-> parsed.decision]

(* SubmissionRegrade(submission_id=..., decision=..., old_total_score=..., *)
(* new_total_score=..., old_results_json=..., new_results_json=...)        *)
NewSubmissionRegrade(i, decision, old_total, new_total, old_results, new_results) ==
    [submission_id |-> i, decision |-> decision,
     old_total_score |-> old_total, new_total_score |-> new_total,
     old_results |-> old_results, new_results |-> new_results]

(* int(total) of a total counted in half points: whole points, as half     *)
(* points                                                                  *)
IntOf(total) == (total \div 2) * 2

(* Variant of ScoreOf that ignores the instructor's score. *)
ScoreOfOracleOnly(a) ==
    IF a.llm_score # NULL THEN a.llm_score ELSE 0

(* The term of one answer in _compute_submission_total *)
ScoreOf(a) ==
    IF a.instructor_edited /\ a.instructor_score # NULL THEN a.instructor_score
    ELSE IF a.llm_score # NULL THEN a.llm_score
    ELSE 0

RECURSIVE SumScores(_, _)
SumScores(ans, K) ==
    IF K = {} THEN 0
    ELSE LET k == CHOOSE k \in K : TRUE
         IN  ScoreOf(ans[k]) + SumScores(ans, K \ {k})

(* _compute_submission_total(db, submission) *)
ComputeSubmissionTotal(ans, i) == SumScores(ans, AnswersOf(ans, i))

(* Variant of SubmittedOf without the submitted_at filter. *)
SubmittedOfAnyState(e, s) == SubmissionsOf(e, s)

(* Submission.submitted_at.isnot(None) *)
SubmittedOf(e, s) ==
    { i \in SubmissionsOf(e, s) : submissions[i].submitted_at # NULL }

(* Variant of OverallExists that finds no row. *)
OverallExistsNever(i) == FALSE

(* _handle_question_dispute: "block if overall dispute already exists" *)
OverallExists(i) ==
    \E r \in DOMAIN submission_regrades : submission_regrades[r].submission_id = i

(* Variant of ExistingRegrade that finds no row. *)
ExistingRegradeNever(k) == FALSE

(* _handle_question_dispute: "block if this question already has a         *)
(* regrade"                                                                *)
ExistingRegrade(k) ==
    \E r \in DOMAIN regrades : regrades[r].answer_id = k

(* Variant of QuestionRegradesCount that counts no row. *)
QuestionRegradesCountZero(i) == 0

(* _handle_overall_dispute: "block if any question-level regrades exist" *)
QuestionRegradesCount(i) ==
    Cardinality({ r \in DOMAIN regrades : regrades[r].answer_id \in AnswersOf(answers, i) })

(* Variant of ExistingOverall that finds no row. *)
ExistingOverallNever(i) == FALSE

(* _handle_overall_dispute: "block if overall already submitted" *)
ExistingOverall(i) ==
    \E r \in DOMAIN submission_regrades : submission_regrades[r].submission_id = i

(* float(answer.llm_score) if answer.llm_score is not None else 0.0 *)
OriginalScore(a) == IF a.llm_score # NULL THEN a.llm_score ELSE 0

(* The tail of _handle_question_dispute, from the oracle call on *)
AdjudicateQuestion(i, k, v) ==
    LET original_score == OriginalScore(answers[k])
        parsed == AdjudicateDisputeQuestion(v, original_score)
        ans1 == IF parsed.decision = "update"
                THEN [answers EXCEPT ![k].llm_score = parsed.question_score_new,
                                     ![k].llm_feedback = parsed.feedback_new]
                ELSE answers
    IN  IF parsed.kind = "error"
        THEN /\ UNCHANGED <<answers, disputes>>
             /\ resp' = DisputeError(503, "oracle_failed", "question", i, k, TRUE)
        ELSE /\ regrades' = Append(regrades, NewRegrade(k, parsed))
             /\ answers' = ans1
             /\ UNCHANGED <<submission_regrades, assigned_disputes>>
             /\ resp' = DisputeReply("dispute", 200, "adjudicated", "question", i, k, TRUE,
                                     parsed.decision, original_score,
                                     parsed.question_score_new,
                                     ComputeSubmissionTotal(answers, i),
                                     ComputeSubmissionTotal(ans1, i))

HandleQuestionDispute(e, i, qn, v) ==
    IF qn = NULL
    THEN /\ UNCHANGED <<answers, disputes>>
         /\ resp' = DisputeError(400, "question_number_required", "question", i, 0, FALSE)
    ELSE IF qn < 1 \/ qn > Cardinality(ExamQuestions(e))
    THEN /\ UNCHANGED <<answers, disputes>>
         /\ resp' = DisputeError(400, "question_number_range", "question", i, 0, FALSE)
    ELSE IF AnswerFor(answers, i, QuestionAt(e, qn)) = {}
    THEN /\ UNCHANGED <<answers, disputes>>
         /\ resp' = DisputeError(404, "no_answer", "question", i, 0, FALSE)
    ELSE \E k \in AnswerFor(answers, i, QuestionAt(e, qn)) :
           IF OverallExists(i)
           THEN /\ UNCHANGED <<answers, disputes>>
                /\ resp' = DisputeError(409, "overall_locked", "question", i, k, FALSE)
           ELSE IF ExistingRegrade(k)
           THEN /\ UNCHANGED <<answers, disputes>>
                /\ resp' = DisputeError(409, "question_locked", "question", i, k, FALSE)
           ELSE AdjudicateQuestion(i, k, v)

(* Variant of Results that records 0 for an answer without a score. *)
ResultsZeroForUngraded(ans, e, i) ==
    [n \in 1..Cardinality(ExamQuestions(e)) |->
       LET K == AnswerFor(ans, i, QuestionAt(e, n))
       IN  [q_index |-> n,
            score |-> IF K # {} /\ \A k \in K : ans[k].llm_score # NULL
                      THEN (CHOOSE x \in { ans[k].llm_score : k \in K } : TRUE)
                      ELSE 0,
            feedback |-> IF K # {}
                         THEN (CHOOSE x \in { ans[k].llm_feedback : k \in K } : TRUE)
                         ELSE "None"]]

(* The snapshot the handler takes of every question of the exam, in        *)
(* q_index order: the answer's llm_score and llm_feedback, or None.        *)
Results(ans, e, i) ==
    [n \in 1..Cardinality(ExamQuestions(e)) |->
       LET K == AnswerFor(ans, i, QuestionAt(e, n))
       IN  [q_index |-> n,
            score |-> IF K # {} /\ \A k \in K : ans[k].llm_score # NULL
                      THEN (CHOOSE x \in { ans[k].llm_score : k \in K } : TRUE)
                      ELSE NULL,
            feedback |-> IF K # {}
                         THEN (CHOOSE x \in { ans[k].llm_feedback : k \in K } : TRUE)
                         ELSE "None"]]

(* Variant of UpdatesApplied that visits the reply's entries whatever the  *)
(* decision.                                                               *)
UpdatesAppliedWhateverDecision(v) == v.question_updates

(* The entries the update loop visits: those of the adjudicated reply when *)
(* its decision is update, none otherwise.                                 *)
UpdatesApplied(v) ==
    LET parsed == AdjudicateDisputeOverall(v)
    IN  IF parsed.decision = "update" THEN parsed.question_updates ELSE << >>

(* "if q_num and q_num in q_map", "if answer" *)
UpdateApplies(ans, e, i, upd) ==
    /\ upd.question_number \in 1..Cardinality(ExamQuestions(e))
    /\ AnswerFor(ans, i, QuestionAt(e, upd.question_number)) # {}

(* Variant of ApplyUpdate that looks the answer up by question alone. *)
ApplyUpdateAnySubmission(ans, e, i, upd) ==
    IF UpdateApplies(ans, e, i, upd)
    THEN [k \in DOMAIN ans |->
            IF ans[k].question_id = QuestionAt(e, upd.question_number)
            THEN [ans[k] EXCEPT !.llm_score = upd.score_new,
                                !.llm_feedback = IF upd.feedback_new # ""
                                                 THEN upd.feedback_new ELSE @]
            ELSE ans[k]]
    ELSE ans

(* One pass of the update loop body *)
ApplyUpdate(ans, e, i, upd) ==
    IF UpdateApplies(ans, e, i, upd)
    THEN LET k == CHOOSE k \in AnswerFor(ans, i, QuestionAt(e, upd.question_number)) : TRUE
         IN  [ans EXCEPT ![k].llm_score = upd.score_new,
                         ![k].llm_feedback = IF upd.feedback_new # ""
                                             THEN upd.feedback_new ELSE @]
    ELSE ans

RECURSIVE ApplyUpdates(_, _, _, _)
ApplyUpdates(ans, e, i, updates) ==
    IF updates = << >> THEN ans
    ELSE ApplyUpdates(ApplyUpdate(ans, e, i, Head(updates)), e, i, Tail(updates))

(* float(upd["score_new"]) raises for an entry that is applied and has no  *)
(* usable score: the request ends with 500 and nothing is committed.       *)
UpdateRaises(ans, e, i, updates) ==
    \E p \in DOMAIN updates :
      UpdateApplies(ans, e, i, updates[p]) /\ ~updates[p].has_score

(* The tail of _handle_overall_dispute, from the snapshot of the old       *)
(* results on                                                              *)
AdjudicateOverall(e, i, v) ==
    LET parsed == AdjudicateDisputeOverall(v)
        old_total == ComputeSubmissionTotal(answers, i)
        ans1 == ApplyUpdates(answers, e, i, UpdatesApplied(v))
        new_total == ComputeSubmissionTotal(ans1, i)
    IN  IF parsed.kind = "error"
        THEN /\ UNCHANGED <<answers, disputes>>
             /\ resp' = DisputeError(503, "oracle_failed", "overall", i, 0, TRUE)
        ELSE IF UpdateRaises(answers, e, i, UpdatesApplied(v))
        THEN /\ UNCHANGED <<answers, disputes>>
             /\ resp' = DisputeError(500, "update_failed", "overall", i, 0, TRUE)
        ELSE /\ answers' = ans1
             /\ submission_regrades' =
                  Append(submission_regrades,
                         NewSubmissionRegrade(i, parsed.decision,
                                              IntOf(old_total), IntOf(new_total),
                                              Results(answers, e, i), Results(ans1, e, i)))
             /\ UNCHANGED <<regrades, assigned_disputes>>
             /\ resp' = DisputeReply("dispute", 200, "adjudicated", "overall", i, 0, TRUE,
                                     parsed.decision, NULL, NULL, old_total, new_total)

HandleOverallDispute(e, i, v) ==
    IF QuestionRegradesCount(i) > 0
    THEN /\ UNCHANGED <<answers, disputes>>
         /\ resp' = DisputeError(409, "questions_locked", "overall", i, 0, FALSE)
    ELSE IF ExistingOverall(i)
    THEN /\ UNCHANGED <<answers, disputes>>
         /\ resp' = DisputeError(409, "overall_used", "overall", i, 0, FALSE)
    ELSE AdjudicateOverall(e, i, v)

(* submit_dispute with resolve_practice_submission: s is the student of    *)
(* the session, e, target and qn the request body, v the oracle's reply.   *)
SubmitDispute(e, s, target, qn, v) ==
    /\ UNCHANGED <<now, exams, submissions>>
    /\ IF e \notin DisputeExams
       THEN /\ UNCHANGED <<answers, disputes>>
            /\ resp' = DisputeError(404, "exam_not_found", target, 0, 0, FALSE)
       ELSE IF ExamOwner(e) # s
       THEN /\ UNCHANGED <<answers, disputes>>
            /\ resp' = DisputeError(403, "not_own_practice_exam", target, 0, 0, FALSE)
       ELSE IF SubmittedOf(e, s) = {}
       THEN /\ UNCHANGED <<answers, disputes>>
            /\ resp' = DisputeError(404, "no_submission", target, 0, 0, FALSE)
       ELSE \E i \in FirstByStartedDesc(SubmittedOf(e, s)) :
              IF target \notin {"question", "overall"}
              THEN /\ UNCHANGED <<answers, disputes>>
                   /\ resp' = DisputeError(400, "bad_target", target, i, 0, FALSE)
              ELSE IF target = "question"
              THEN HandleQuestionDispute(e, i, qn, v)
              ELSE HandleOverallDispute(e, i, v)

----
(* Variant of ScoreOutOfBounds that checks the lower bound only. *)
ScoreOutOfBoundsBelowOnly(score, q) == score < 0

(* request.score < 0 or request.score > question.points_possible *)
ScoreOutOfBounds(score, q) == score < 0 \/ score > PointsPossible(q)

(* PUT /api/instructor/answers/{answer_id}/grade, called by an instructor  *)
(* user whose instructor_id is u                                           *)
UpdateAnswerGrade(u, k, score) ==
    /\ UNCHANGED <<now, exams, submissions, disputes>>
    /\ IF k \notin DOMAIN answers
       THEN /\ UNCHANGED answers
            /\ resp' = DisputeReply("grade", 404, "answer_not_found", "answer", 0, 0, FALSE,
                                    "none", NULL, NULL, NULL, NULL)
       ELSE IF ExamInstructor(submissions[answers[k].submission_id].exam_id) # u
       THEN /\ UNCHANGED answers
            /\ resp' = DisputeReply("grade", 403, "not_own_exam", "answer",
                                    answers[k].submission_id, k, FALSE,
                                    "none", NULL, NULL, NULL, NULL)
       ELSE IF ScoreOutOfBounds(score, answers[k].question_id)
       THEN /\ UNCHANGED answers
            /\ resp' = DisputeReply("grade", 400, "score_out_of_bounds", "answer",
                                    answers[k].submission_id, k, FALSE,
                                    "none", NULL, NULL, NULL, NULL)
       ELSE /\ answers' = [answers EXCEPT ![k].instructor_edited = TRUE,
                                          ![k].instructor_score = score]
            /\ resp' = DisputeReply("grade", 200, "graded", "answer",
                                    answers[k].submission_id, k, FALSE,
                                    "none", NULL, score, NULL, NULL)

----
Next ==
    \/ \E e \in Exams, s \in Students : StartExam(e, s)
    \/ \E e \in Exams, s \in Students : ResumeExam(e, s)
    \/ \E e \in Exams, s \in Students : SubmitExam(e, s)
    \/ \E e \in Exams, s \in Students, q \in Questions, text \in Texts, reply \in GradeReplies :
         RecordAnswer(e, s, q, text, reply)
    \/ \E s \in Students : SweepOverdue(s)
    \/ \E e \in Exams, ids \in StudentLists, tl \in TimeLimitChoices, due \in DueChoices(now) :
         AssignExam(e, ids, tl, due)

Spec == Init /\ [][Next]_vars

----
(* The dispute handlers on the attempts of practice exam 3 *)

(* Student 1 has taken exam 3 twice: submission 1 is submitted with both   *)
(* questions answered, submission 2 is in progress with the first          *)
(* question answered.  The second answer of submission 1 is graded, or     *)
(* was stored ungraded by an earlier deployment.                           *)
DisputeSubmissions ==
    << NewSubmission(3, 1, 0, 1, NULL), NewSubmission(3, 1, 1, NULL, NULL) >>

DisputeAnswers(score) ==
    << NewAnswer(1, 5, "a", 1, "f1"),
       NewAnswer(1, 6, "b", score, IF score = NULL THEN "" ELSE "f1"),
       NewAnswer(2, 5, "b", 1, "f1") >>

NoDisputeResp ==
    DisputeReply("none", 200, "none", "none", 0, 0, FALSE, "none", NULL, NULL, NULL, NULL)

InitDispute ==
    /\ now = 2
    /\ exams = [e \in Exams |-> [due_date |-> NULL, time_limit_minutes |-> NULL]]
    /\ submissions = DisputeSubmissions
    /\ \E score \in {NULL, 3} : answers = DisputeAnswers(score)
    /\ regrades = << >>
    /\ submission_regrades = << >>
    /\ assigned_disputes = << >>
    /\ resp = NoDisputeResp

(* request.exam_id: an exam of the store or none (4) *)
RequestExams == DisputeExams \cup {4}

(* request.question_number: none, or a number up to one past the last *)
QuestionNumbers == {NULL, 1, 2, 3}

(* The instructor of the session: the default instructor or another *)
Instructors == {1, 2}

(* answer_id of the path: the first answer of submission 1 or no row (4) *)
AnswerIds == {1, 4}

(* request.score, in half points *)
GradeScores == {-2, 2, 5}

NextDispute ==
    \/ \E s \in Students, qn \in QuestionNumbers, v \in QuestionVerdicts :
         SubmitDispute(3, s, "question", qn, v)
    \/ \E s \in Students, v \in OverallVerdicts :
         SubmitDispute(3, s, "overall", NULL, v)
    \/ \E e \in RequestExams, s \in Students : SubmitDispute(e, s, "both", NULL, OverallFail)
    \/ \E u \in Instructors, k \in AnswerIds, score \in GradeScores :
         UpdateAnswerGrade(u, k, score)
    \/ \E s \in Students : SubmitExam(3, s)

SpecDispute == InitDispute /\ [][NextDispute]_vars

----
(* The handlers that call the oracle, on the attempts of practice exam 3:  *)
(* submit_response and the two dispute handlers                            *)
(* The oracle's replies to a question dispute: an exception, an object    *)
(* without feedback_new, and a complete update                             *)
OracleQuestionVerdicts ==
    { VerdictFail,
      QuestionVerdict(QuestionKeys \ {"feedback_new"}, "update", 1, 3),
      QuestionVerdict(QuestionKeys, "update", 1, 3) }

(* The oracle's replies to an attempt dispute: an exception, an object     *)
(* without total_new, and a complete update                                *)
OracleOverallVerdicts ==
    { OverallFail,
      OverallVerdict(OverallKeys \ {"total_new"}, "update", << >>),
      OverallVerdict(OverallKeys, "update", << QuestionUpdate(1, TRUE, 3, "g") >>) }

NextOracle ==
    \/ \E s \in Students, q \in ExamQuestions(3), reply \in GradeReplies :
         RecordAnswer(3, s, q, "b", reply)
    \/ \E s \in Students, qn \in {1, 2}, v \in OracleQuestionVerdicts :
         SubmitDispute(3, s, "question", qn, v)
    \/ \E s \in Students, v \in OracleOverallVerdicts :
         SubmitDispute(3, s, "overall", NULL, v)

SpecOracle == InitDispute /\ [][NextOracle]_vars

----
(* The review queue: disputes of assigned exams, resolved by the           *)
(* instructor                                                              *)

(* order_by(Submission.submitted_at.desc()).first(): NULL sorts last *)
FirstBySubmittedDesc(S) ==
    { i \in S : \A j \in S : submissions[j].submitted_at <= submissions[i].submitted_at }

(* Variant of NewAssignedDispute that stores the row as approved by the   *)
(* exam's instructor.                                                      *)
NewAssignedDisputeApproved(i, q) ==
    [submission_id |-> i, question_id |-> q, status |-> "resolved",
     instructor_decision |-> "approved", instructor_response |-> "None",
     resolved_by |-> 2, resolved_at |-> now]

(* AssignedExamDispute(submission_id=..., question_id=...,                 *)
(* student_argument=..., status="pending"): the instructor columns are     *)
(* not set.                                                                *)
NewAssignedDispute(i, q) ==
    [submission_id |-> i, question_id |-> q, status |-> "pending",
     instructor_decision |-> "None", instructor_response |-> "None",
     resolved_by |-> NULL, resolved_at |-> NULL]

(* The outcome of a review queue request: the HTTP status, the branch      *)
(* taken, the submission resolved and the dispute row written or           *)
(* addressed (0 when there is none).                                       *)
ReviewReply(op, status, branch, target, sub, dispute) ==
    [op |-> op, ok |-> status = 200, status |-> status, branch |-> branch,
     target |-> target, sub |-> sub, dispute |-> dispute, called |-> FALSE]

(* "Check for existing overall dispute" and "Check for overall dispute     *)
(* (blocks question disputes)"                                             *)
AssignedOverallExists(i) ==
    \E d \in DOMAIN assigned_disputes :
      /\ assigned_disputes[d].submission_id = i
      /\ assigned_disputes[d].question_id = NULL

(* "Check for existing dispute for this question" *)
AssignedQuestionExists(i, q) ==
    \E d \in DOMAIN assigned_disputes :
      /\ assigned_disputes[d].submission_id = i
      /\ assigned_disputes[d].question_id = q

(* The tail of submit_assigned_dispute: the second check for an overall    *)
(* dispute, then the insert.                                               *)
CreateAssignedDispute(target, i, q) ==
    IF AssignedOverallExists(i)
    THEN /\ UNCHANGED assigned_disputes
         /\ resp' = ReviewReply("assigned_dispute", 409, "overall_locked", target, i, 0)
    ELSE /\ assigned_disputes' = Append(assigned_disputes, NewAssignedDispute(i, q))
         /\ resp' = ReviewReply("assigned_dispute", 200, "recorded", target, i,
                                Len(assigned_disputes) + 1)

(* submit_assigned_dispute after the submission is resolved *)
HandleAssignedDispute(e, i, target, qn) ==
    IF target \notin {"question", "overall"}
    THEN /\ UNCHANGED assigned_disputes
         /\ resp' = ReviewReply("assigned_dispute", 400, "bad_target", target, i, 0)
    ELSE IF target = "overall"
    THEN IF AssignedOverallExists(i)
         THEN /\ UNCHANGED assigned_disputes
              /\ resp' = ReviewReply("assigned_dispute", 409, "overall_used", target, i, 0)
         ELSE CreateAssignedDispute(target, i, NULL)
    ELSE IF qn = NULL
    THEN /\ UNCHANGED assigned_disputes
         /\ resp' = ReviewReply("assigned_dispute", 400, "question_number_required",
                                target, i, 0)
    ELSE IF qn < 1 \/ qn > Cardinality(ExamQuestions(e))
    THEN /\ UNCHANGED assigned_disputes
         /\ resp' = ReviewReply("assigned_dispute", 400, "question_number_range",
                                target, i, 0)
    ELSE IF AssignedQuestionExists(i, QuestionAt(e, qn))
    THEN /\ UNCHANGED assigned_disputes
         /\ resp' = ReviewReply("assigned_dispute", 409, "question_locked", target, i, 0)
    ELSE CreateAssignedDispute(target, i, QuestionAt(e, qn))

(* POST /api/assigned/dispute with resolve_assigned_submission *)
SubmitAssignedDispute(e, s, target, qn) ==
    /\ UNCHANGED <<now, exams, submissions, answers, regrades, submission_regrades>>
    /\ IF e \notin DisputeExams
       THEN /\ UNCHANGED assigned_disputes
            /\ resp' = ReviewReply("assigned_dispute", 404, "exam_not_found", target, 0, 0)
       ELSE IF ExamOwner(e) # NoOwner
       THEN /\ UNCHANGED assigned_disputes
            /\ resp' = ReviewReply("assigned_dispute", 400, "practice_exam", target, 0, 0)
       ELSE IF SubmissionsOf(e, s) = {}
       THEN /\ UNCHANGED assigned_disputes
            /\ resp' = ReviewReply("assigned_dispute", 404, "no_submission", target, 0, 0)
       ELSE \E i \in FirstBySubmittedDesc(SubmissionsOf(e, s)) :
              IF submissions[i].submitted_at = NULL
              THEN /\ UNCHANGED assigned_disputes
                   /\ resp' = ReviewReply("assigned_dispute", 400, "not_submitted",
                                          target, i, 0)
              ELSE HandleAssignedDispute(e, i, target, qn)

(* dispute.status != "pending" raises *)
IsPending(d) == d.status = "pending"

(* "Update dispute" *)
Resolved(d, u, decision, response) ==
    [d EXCEPT !.status = "resolved",
              !.instructor_response = response,
              !.instructor_decision = decision,
              !.resolved_at = now,
              !.resolved_by = u]

(* Variant of AnswersAfterResolve that gives the answer of an approved     *)
(* question dispute full marks.                                            *)
AnswersAfterResolveApplied(ans, d, decision) ==
    IF decision = "approved" /\ d.question_id # NULL
       /\ AnswerFor(ans, d.submission_id, d.question_id) # {}
    THEN LET k == CHOOSE k \in AnswerFor(ans, d.submission_id, d.question_id) : TRUE IN
         [ans EXCEPT ![k].instructor_edited = TRUE,
                     ![k].instructor_score = PointsPossible(d.question_id)]
    ELSE ans

(* "If approved and it's a question dispute, update the answer grade":     *)
(* the answer is looked up and the branch body is pass.                    *)
AnswersAfterResolve(ans, d, decision) == ans

(* PUT /api/instructor/disputes/{dispute_id}/resolve, called by an         *)
(* instructor user whose instructor record is u                            *)
ResolveDispute(u, d, decision, response) ==
    /\ UNCHANGED <<now, exams, submissions, regrades, submission_regrades>>
    /\ IF decision \notin {"approved", "rejected", "partially_approved"}
       THEN /\ UNCHANGED <<assigned_disputes, answers>>
            /\ resp' = ReviewReply("resolve", 400, "bad_decision", "dispute", 0, 0)
       ELSE IF d \notin DOMAIN assigned_disputes
       THEN /\ UNCHANGED <<assigned_disputes, answers>>
            /\ resp' = ReviewReply("resolve", 404, "dispute_not_found", "dispute", 0, 0)
       ELSE IF ~IsPending(assigned_disputes[d])
       THEN /\ UNCHANGED <<assigned_disputes, answers>>
            /\ resp' = ReviewReply("resolve", 400, "already_resolved", "dispute",
                                   assigned_disputes[d].submission_id, d)
       ELSE IF ExamInstructor(submissions[assigned_disputes[d].submission_id].exam_id) # u
       THEN /\ UNCHANGED <<assigned_disputes, answers>>
            /\ resp' = ReviewReply("resolve", 403, "not_own_exam", "dispute",
                                   assigned_disputes[d].submission_id, d)
       ELSE /\ assigned_disputes' =
                 [assigned_disputes EXCEPT ![d] = Resolved(@, u, decision, response)]
            /\ answers' = AnswersAfterResolve(answers, assigned_disputes[d], decision)
            /\ resp' = ReviewReply("resolve", 200, "resolved", "dispute",
                                   assigned_disputes[d].submission_id, d)

(* Student 1 has one attempt of the assigned exam 1, in progress or        *)
(* submitted, with the first two questions answered and graded.            *)
ReviewSubmissions(su) == << NewSubmission(1, 1, 0, su, NULL) >>

ReviewAnswers == << NewAnswer(1, 1, "a", 1, "f1"), NewAnswer(1, 2, "b", 3, "f1") >>

NoReviewResp == ReviewReply("none", 200, "none", "none", 0, 0)

InitReview ==
    /\ now = 2
    /\ exams = [e \in Exams |-> [due_date |-> NULL, time_limit_minutes |-> NULL]]
    /\ \E su \in {NULL, 1} : submissions = ReviewSubmissions(su)
    /\ answers = ReviewAnswers
    /\ regrades = << >>
    /\ submission_regrades = << >>
    /\ assigned_disputes = << >>
    /\ resp = NoReviewResp

(* The student of the session: student 1 or one with no attempt *)
ReviewStudents == {1, 2}

(* request.question_number: none, the first two questions, or one past    *)
(* the last                                                                *)
ReviewQuestionNumbers == {NULL, 1, 2, 4}

(* dispute_id of the path: the rows a run can create, or no row *)
DisputeIds == {1, 2, 3, 4}

(* request.instructor_decision with request.instructor_response: two of    *)
(* the accepted decisions and a word that is none of them                  *)
Resolutions == {<<"approved", "r1">>, <<"rejected", "r2">>, <<"later", "r1">>}

NextReview ==
    \/ \E s \in Students, qn \in ReviewQuestionNumbers :
         SubmitAssignedDispute(1, s, "question", qn)
    \/ \E s \in Students : SubmitAssignedDispute(1, s, "overall", NULL)
    \/ \E e \in RequestExams, s \in ReviewStudents :
         SubmitAssignedDispute(e, s, "both", NULL)
    \/ \E u \in Instructors, d \in DisputeIds, r \in Resolutions :
         ResolveDispute(u, d, r[1], r[2])
    \/ \E u \in Instructors, k \in AnswerIds, score \in GradeScores :
         UpdateAnswerGrade(u, k, score)
    \/ \E s \in Students : SubmitExam(1, s)

SpecReview == InitReview /\ [][NextReview]_vars


----
(* Properties *)

DistinctAnswered(i) == { answers[k].question_id : k \in AnswersOf(answers, i) }

DueDatePassed(e) == exams[e].due_date # NULL /\ exams[e].due_date < now

(* C1: once a submission's submitted_at is set, no request removes the row, *)
(* clears submitted_at or changes its value.                               *)
C1_SubmittedIsTerminal ==
    [][\A i \in DOMAIN submissions :
         submissions[i].submitted_at # NULL =>
           /\ i \in DOMAIN submissions'
           /\ submissions'[i].submitted_at = submissions[i].submitted_at]_vars

(* A sweep has just visited an overdue exam whose attempt was submitted by *)
(* an earlier request.                                                     *)
C1_Witness ==
    /\ resp.op = "sweep"
    /\ \E i \in DOMAIN submissions :
         /\ submissions[i].submitted_at # NULL
         /\ submissions[i].submitted_at < now - 1
         /\ exams[submissions[i].exam_id].due_date # NULL
         /\ exams[submissions[i].exam_id].due_date < now - 1

(* C2: right after a successful submit-response, the submission it wrote   *)
(* is submitted iff the distinct questions answered in it are at least the *)
(* questions of its exam, and an update of an existing answer leaves the   *)
(* submission in progress.                                                 *)
C2_SubmittedIffAllAnswered ==
    (resp.op = "record" /\ resp.ok) =>
      \A i \in resp.ids :
        /\ (submissions[i].submitted_at # NULL) <=>
             (Cardinality(DistinctAnswered(i))
                >= Cardinality(ExamQuestions(submissions[i].exam_id)))
        /\ (resp.submitted_at # NULL) <=> (submissions[i].submitted_at # NULL)
        /\ resp.branch = "updated" => submissions[i].submitted_at = NULL

(* The third answer of the three-question exam has just completed it. *)
C2_Witness ==
    /\ resp.op = "record" /\ resp.ok /\ resp.branch = "inserted"
    /\ \E i \in resp.ids :
         /\ submissions[i].exam_id = 1
         /\ submissions[i].submitted_at = now - 1
         /\ Cardinality(DistinctAnswered(i)) = 3

AnswersUnique(ans) ==
    \A k1, k2 \in DOMAIN ans :
      (/\ ans[k1].submission_id = ans[k2].submission_id
       /\ ans[k1].question_id = ans[k2].question_id) => k1 = k2

(* C3: in the initial store and after every request no two answer rows    *)
(* share (submission, question), and a                                     *)
(* submit-response for a pair that has a row rewrites that row's text,     *)
(* score and feedback and leaves every other row and the row count alone.  *)
C3_OneAnswerPerQuestion ==
    /\ AnswersUnique(answers)
    /\ [][/\ AnswersUnique(answers')
          /\ (resp'.op = "record" /\ resp'.branch = "updated") =>
              \A e \in Exams, s \in Students, q \in Questions,
                 text \in Texts, reply \in GradeReplies :
                RecordAnswer(e, s, q, text, reply) =>
                  /\ Len(answers') = Len(answers)
                  /\ \E k \in DOMAIN answers :
                       /\ answers[k].submission_id \in resp'.ids
                       /\ answers[k].question_id = q
                       /\ answers'[k] = [answers[k] EXCEPT
                                           !.student_answer = text,
                                           !.llm_score = GradeScore(reply),
                                           !.llm_feedback = GradeFeedback(reply)]
                       /\ \A j \in DOMAIN answers \ {k} : answers'[j] = answers[j]]_vars

(* An answer stored ungraded with text "a" has been answered again. *)
C3_Witness ==
    /\ resp.op = "record" /\ resp.branch = "updated"
    /\ \E k \in DOMAIN answers :
         /\ answers[k].submission_id \in resp.ids
         /\ answers[k].question_id = 1
         /\ answers[k].student_answer = "b"
         /\ answers[k].llm_score = 1

(* C4: each (exam, student) pair has at most one submission with           *)
(* submitted_at NULL.                                                      *)
C4_AtMostOneInProgress ==
    \A e \in Exams, s \in Students : Cardinality(InProgressOf(e, s)) <= 1

(* C5: a submit-response for a pair whose only submissions are submitted   *)
(* is rejected and writes neither an answer nor a submission.              *)
C5_RecordRejectedWhenSubmitted ==
    [][\A e \in Exams, s \in Students, q \in Questions,
         text \in Texts, reply \in GradeReplies :
         (/\ RecordAnswer(e, s, q, text, reply)
          /\ SubmissionsOf(e, s) # {}
          /\ \A i \in SubmissionsOf(e, s) : submissions[i].submitted_at # NULL)
         => (~resp'.ok /\ answers' = answers /\ submissions' = submissions)]_vars

(* C6: a submit-response adds no answer to, and changes no answer text of, *)
(* a submission whose submitted_at was set before the request.             *)
C6_NoAnswerWriteAfterSubmit ==
    [][resp'.op = "record" =>
         \A i \in DOMAIN submissions :
           submissions[i].submitted_at # NULL =>
             /\ AnswersOf(answers', i) = AnswersOf(answers, i)
             /\ \A k \in AnswersOf(answers, i) :
                  answers'[k].student_answer = answers[k].student_answer]_vars

(* A submit-response succeeded for an exam on which the student has a      *)
(* submission with answers that an earlier request submitted.              *)
C6_Witness ==
    /\ resp.op = "record" /\ resp.ok
    /\ \E i \in resp.ids, j \in DOMAIN submissions :
         /\ j # i
         /\ submissions[j].exam_id = submissions[i].exam_id
         /\ submissions[j].student_id = submissions[i].student_id
         /\ submissions[j].submitted_at # NULL
         /\ submissions[j].submitted_at < now - 1
         /\ AnswersOf(answers, j) # {}

(* C7: a submit request that finds the submission already submitted        *)
(* returns success with the stored submitted_at (the one the request that  *)
(* submitted it returned) and writes nothing.                              *)
C7_SubmitIdempotent ==
    [][\A e \in Exams, s \in Students :
         (/\ SubmitExam(e, s)
          /\ SubmissionsOf(e, s) # {}
          /\ \A i \in FirstByStartedDesc(SubmissionsOf(e, s)) :
               submissions[i].submitted_at # NULL)
         => /\ resp'.ok
            /\ UNCHANGED <<exams, submissions, answers>>
            /\ \E i \in FirstByStartedDesc(SubmissionsOf(e, s)) :
                 resp'.ids = {i} /\ resp'.submitted_at = submissions[i].submitted_at
            /\ (resp.op = "submit" /\ resp.ids = resp'.ids) =>
                 resp'.submitted_at = resp.submitted_at]_vars

(* Two submit requests in a row for the same submission. *)
C7_Witness ==
    /\ resp.op = "submit" /\ resp.ok /\ resp.branch = "already_submitted"
    /\ \E i \in resp.ids :
         /\ submissions[i].submitted_at = now - 2
         /\ resp.submitted_at = now - 2

(* C8: every submitted submission has a started_at. *)
C8_SubmittedImpliesStarted ==
    \A i \in DOMAIN submissions :
      submissions[i].submitted_at # NULL => submissions[i].started_at # NULL

(* C9: the sweep writes the submission it handles exactly when the exam's  *)
(* due date has passed and the submission is not submitted: it sets        *)
(* submitted_at, sets started_at if it was NULL, and gives a score to      *)
(* each ungraded answer whose grading did not raise; it touches no other   *)
(* submission, no graded answer and no exam.                               *)
C9_SweepActsWhenOverdue ==
    [][\A s \in Students :
         SweepOverdue(s) =>
           /\ exams' = exams
           /\ DOMAIN submissions' = DOMAIN submissions
           /\ DOMAIN answers' = DOMAIN answers
           /\ \A i \in DOMAIN submissions :
                IF i \in resp'.ids
                THEN /\ DueDatePassed(submissions[i].exam_id)
                     /\ submissions[i].submitted_at = NULL
                     /\ submissions'[i] =
                          [submissions[i] EXCEPT
                             !.submitted_at = now,
                             !.started_at = IF @ = NULL THEN now ELSE @]
                ELSE /\ submissions'[i] = submissions[i]
                     /\ \A k \in AnswersOf(answers, i) : answers'[k] = answers[k]
           /\ \A k \in DOMAIN answers :
                answers[k].llm_score # NULL => answers'[k] = answers[k]
           /\ Cardinality({ k \in DOMAIN answers :
                              answers[k].llm_score = NULL /\ answers'[k].llm_score # NULL })
                = resp'.graded
           /\ resp'.failed = 0 =>
                \A i \in resp'.ids : \A k \in AnswersOf(answers, i) :
                  answers'[k].llm_score # NULL
           /\ \A e \in Exams :
                (/\ ExamOwner(e) = NoOwner
                 /\ DueDatePassed(e)
                 /\ SubmissionsOf(e, s) # {}
                 /\ \A i \in FirstByStartedDesc(SubmissionsOf(e, s)) :
                      submissions[i].submitted_at = NULL)
                => resp'.ids \cap SubmissionsOf(e, s) # {}]_vars

(* A sweep has just submitted an overdue submission and graded its two     *)
(* ungraded answers.                                                       *)
C9_Witness ==
    /\ resp.op = "sweep" /\ resp.graded = 2 /\ resp.failed = 0
    /\ \E i \in resp.ids :
         /\ submissions[i].submitted_at = now - 1
         /\ \A k \in AnswersOf(answers, i) : answers[k].llm_score # NULL

(* C10: a sweep in which some grading raised still returns success,        *)
(* submits the submission and grades every answer whose own grading did    *)
(* not raise.                                                              *)
C10_SweepSurvivesGradingFailure ==
    [][\A s \in Students :
         (SweepOverdue(s) /\ resp'.failed > 0) =>
           /\ resp'.ok
           /\ \A i \in resp'.ids : submissions'[i].submitted_at = now
           /\ Cardinality({ k \in DOMAIN answers :
                              /\ answers[k].submission_id \in resp'.ids
                              /\ answers[k].llm_score = NULL
                              /\ answers'[k].llm_score # NULL })
                = resp'.graded]_vars

(* A sweep in which one grading raised and another succeeded. *)
C10_Witness ==
    /\ resp.op = "sweep" /\ resp.failed = 1 /\ resp.graded = 1
    /\ \E i \in resp.ids :
         /\ submissions[i].submitted_at = now - 1
         /\ \E k1, k2 \in AnswersOf(answers, i) :
              answers[k1].llm_score = NULL /\ answers[k2].llm_score # NULL

(* C11: a sweep leaves every submission that is already submitted, one an  *)
(* earlier sweep submitted included, and all its answers as they are, and  *)
(* every grading call it makes is for an ungraded answer of a submission   *)
(* it submits in this request; a sweep right after a sweep that submitted  *)
(* all it found therefore makes no call at all.                            *)
C11_SweepIdempotent ==
    [][\A s \in Students :
         SweepOverdue(s) =>
           /\ \A i \in DOMAIN submissions :
                submissions[i].submitted_at # NULL =>
                  /\ i \notin resp'.ids
                  /\ submissions'[i] = submissions[i]
                  /\ \A k \in AnswersOf(answers, i) : answers'[k] = answers[k]
           /\ resp'.graded + resp'.failed
                = Cardinality({ k \in DOMAIN answers :
                                  /\ answers[k].submission_id \in resp'.ids
                                  /\ answers[k].llm_score = NULL })
           /\ (resp.op = "sweep" /\ resp.ids # {} /\ resp'.ids \subseteq resp.ids) =>
                (resp'.ids = {} /\ resp'.graded = 0 /\ resp'.failed = 0)]_vars

(* Two sweeps in a row: the first submitted the overdue submission and     *)
(* graded one of its two ungraded answers (the other grading raised), the  *)
(* second found it submitted and did nothing.                              *)
C11_Witness ==
    /\ now = 4
    /\ resp.op = "sweep" /\ resp.ids = {} /\ resp.graded = 0 /\ resp.failed = 0
    /\ \E i \in DOMAIN submissions :
         /\ submissions[i].submitted_at = 2
         /\ exams[submissions[i].exam_id].due_date = 1
         /\ \E k1, k2 \in AnswersOf(answers, i) :
              answers[k1].llm_score = NULL /\ answers[k2].llm_score # NULL

----
(* Properties of the practice dispute handlers, under SpecDispute *)

HasAttemptDispute(i) ==
    \E r \in DOMAIN submission_regrades : submission_regrades[r].submission_id = i

QuestionDisputesOf(i) ==
    { r \in DOMAIN regrades : answers[regrades[r].answer_id].submission_id = i }

HasQuestionDispute(k) == \E r \in DOMAIN regrades : regrades[r].answer_id = k

(* The request just answered is a practice dispute that got as far as      *)
(* resolving its submission.                                               *)
DisputeAnswered(r) ==
    r.op = "dispute" /\ r.sub # 0 /\ r.target \in {"question", "overall"}

(* C12: no submission has both a submission_regrades row and a regrades    *)
(* row on one of its answers.                                              *)
C12_DisputeMutualExclusion ==
    \A i \in DOMAIN submissions : ~(HasAttemptDispute(i) /\ QuestionDisputesOf(i) # {})

(* An overall dispute has just been refused for a submission that has a    *)
(* question dispute.                                                       *)
C12_Witness ==
    /\ DisputeAnswered(resp) /\ resp.target = "overall" /\ resp.status = 409
    /\ QuestionDisputesOf(resp.sub) # {}
    /\ ~HasAttemptDispute(resp.sub)

RegradesUnique(rg) ==
    \A r1, r2 \in DOMAIN rg : rg[r1].answer_id = rg[r2].answer_id => r1 = r2

(* C13: no answer ever has two regrades rows, and a question dispute that  *)
(* addresses an answer which has one is refused with 409 and writes        *)
(* nothing.                                                                *)
C13_OneQuestionDisputePerAnswer ==
    /\ RegradesUnique(regrades)
    /\ [][/\ RegradesUnique(regrades')
          /\ (/\ DisputeAnswered(resp') /\ resp'.target = "question"
              /\ resp'.answer # 0
              /\ HasQuestionDispute(resp'.answer))
             => (resp'.status = 409 /\ UNCHANGED <<answers, disputes>>)]_vars

(* The second dispute of a question has just been refused, while the other *)
(* answer of the submission is still undisputed.                           *)
C13_Witness ==
    /\ DisputeAnswered(resp) /\ resp.branch = "question_locked"
    /\ HasQuestionDispute(resp.answer)
    /\ \E k \in AnswersOf(answers, resp.sub) : ~HasQuestionDispute(k)

(* C14 as stated: once a submission has a submission_regrades row, every   *)
(* further overall dispute and every question dispute for it is answered   *)
(* 409.                                                                    *)
C14_AllRefusedWithConflict ==
    [][(DisputeAnswered(resp') /\ HasAttemptDispute(resp'.sub))
         => resp'.status = 409]_vars

(* C14, amended: once a submission has a submission_regrades row, every    *)
(* further dispute for it is refused without an oracle call or a write:    *)
(* an overall dispute with 409, a question dispute with 409 when it names  *)
(* a question that has an answer in the submission, with 400 when the      *)
(* question number is missing or out of range, and with 404 when the       *)
(* question has no answer.                                                 *)
C14_LockedAfterAttemptDispute ==
    [][(DisputeAnswered(resp') /\ HasAttemptDispute(resp'.sub))
         => /\ ~resp'.ok
            /\ ~resp'.called
            /\ UNCHANGED <<answers, disputes>>
            /\ resp'.target = "overall" => resp'.status = 409
            /\ (resp'.target = "question" /\ resp'.answer # 0) => resp'.status = 409
            /\ (resp'.target = "question" /\ resp'.answer = 0) =>
                 \/ resp'.status = 400 /\ resp'.branch \in {"question_number_required",
                                                            "question_number_range"}
                 \/ resp'.status = 404 /\ resp'.branch = "no_answer"]_vars

(* A question dispute has just been refused with 409 for a submission that *)
(* has an overall dispute.                                                 *)
C14_Witness ==
    /\ DisputeAnswered(resp) /\ resp.target = "question" /\ resp.status = 409
    /\ resp.answer # 0
    /\ HasAttemptDispute(resp.sub)

(* C15: a dispute to which a locking rule applies (an overall dispute of a *)
(* submission that has any dispute, a question dispute of an answer that   *)
(* has one or whose submission has an overall dispute), and every dispute  *)
(* answered 409, makes no oracle call and leaves answers, regrades and     *)
(* submission_regrades as they are.                                        *)
C15_RefusedDisputeHasNoEffect ==
    [][(/\ DisputeAnswered(resp')
        /\ \/ resp'.status = 409
           \/ /\ resp'.target = "overall"
              /\ (HasAttemptDispute(resp'.sub) \/ QuestionDisputesOf(resp'.sub) # {})
           \/ /\ resp'.target = "question" /\ resp'.answer # 0
              /\ (HasAttemptDispute(resp'.sub) \/ HasQuestionDispute(resp'.answer)))
         => (~resp'.called /\ UNCHANGED <<answers, disputes>>)]_vars

(* A second overall dispute of a submission has just been refused. *)
C15_Witness ==
    /\ DisputeAnswered(resp) /\ resp.branch = "overall_used"
    /\ ~resp.called
    /\ HasAttemptDispute(resp.sub)

(* The request just answered is a successful dispute of the given target. *)
DisputeDone(r, target) ==
    r.op = "dispute" /\ r.ok /\ r.target = target

(* An oracle score as a number: no score counts as zero. *)
ScoreOrZero(x) == IF x = NULL THEN 0 ELSE x

(* C16: whenever a question dispute ends with decision keep, the answer's  *)
(* score is unchanged, and the score stored in the new regrades row and    *)
(* the new_score returned both equal the score the answer had before the   *)
(* request.                                                                *)
C16_KeepStoresOldScore ==
    [][(DisputeDone(resp', "question") /\ resp'.decision = "keep")
         => /\ answers'[resp'.answer].llm_score = answers[resp'.answer].llm_score
            /\ resp'.new_score = ScoreOrZero(answers[resp'.answer].llm_score)
            /\ regrades'[Len(regrades')].regrade_score
                 = ScoreOrZero(answers[resp'.answer].llm_score)]_vars

(* C17: whenever an overall dispute ends with decision keep, no answer     *)
(* changes, the totals returned are equal, and the stored row has decision *)
(* keep and equal snapshots and totals: the reply's updates are dropped.   *)
C17_KeepLeavesAttemptUnchanged ==
    [][(DisputeDone(resp', "overall") /\ resp'.decision = "keep")
         => /\ answers' = answers
            /\ resp'.new_total = resp'.old_total
            /\ LET row == submission_regrades'[Len(submission_regrades')]
               IN  /\ row.decision = "keep"
                   /\ row.new_results = row.old_results
                   /\ row.new_total_score = row.old_total_score]_vars

(* An overall dispute has just ended with keep (every reply of the model   *)
(* that is not an update carries an update of question 1 to 3): the first  *)
(* answer still has its score of 1.                                        *)
C17_Witness ==
    /\ DisputeDone(resp, "overall") /\ resp.decision = "keep"
    /\ \E r \in DOMAIN submission_regrades :
         /\ submission_regrades[r].submission_id = resp.sub
         /\ submission_regrades[r].decision = "keep"
         /\ submission_regrades[r].new_results[1].score = 1
    /\ \E k \in AnswersOf(answers, resp.sub) :
         answers[k].question_id = 5 /\ answers[k].llm_score = 1

(* C18: a successful question dispute adds exactly one regrades row, for   *)
(* the answer it addresses; it sets the answer's llm_score and             *)
(* llm_feedback to the row's when its decision is update and leaves every  *)
(* answer as it is otherwise; its decision is keep or update, and a reply  *)
(* whose decision is neither (after trimming and lower-casing) is treated  *)
(* as keep.                                                                *)
C18_AnswerWrittenOnlyOnUpdate ==
    [][DisputeDone(resp', "question")
         => /\ Len(regrades') = Len(regrades) + 1
            /\ \A r \in DOMAIN regrades : regrades'[r] = regrades[r]
            /\ regrades'[Len(regrades')].answer_id = resp'.answer
            /\ submission_regrades' = submission_regrades
            /\ resp'.decision \in {"keep", "update"}
            /\ IF resp'.decision = "update"
               THEN answers' =
                      [answers EXCEPT
                         ![resp'.answer].llm_score = regrades'[Len(regrades')].regrade_score,
                         ![resp'.answer].llm_feedback = regrades'[Len(regrades')].regrade_feedback]
               ELSE answers' = answers
            /\ \A s \in Students, qn \in QuestionNumbers, v \in QuestionVerdicts :
                 (v.decision \notin {"keep", "update", " Update "}
                    /\ SubmitDispute(3, s, "question", qn, v))
                 => (resp'.decision = "keep" /\ answers' = answers)]_vars

(* A question dispute has just ended with update: the answer carries the   *)
(* new score, which differs from the old one.                              *)
C18_Witness ==
    /\ DisputeDone(resp, "question") /\ resp.decision = "update"
    /\ resp.new_score # resp.old_score
    /\ answers[resp.answer].llm_score = resp.new_score
    /\ \E r \in DOMAIN regrades :
         regrades[r].answer_id = resp.answer /\ regrades[r].regrade_score = resp.new_score

(* The llm_score of the answer to the question with q_index n, or NULL     *)
(* when the submission has no answer to it.                                *)
OracleScoreAt(ans, i, n) ==
    LET q == QuestionAt(submissions[i].exam_id, n)
    IN  IF \E k \in DOMAIN ans : ans[k].submission_id = i /\ ans[k].question_id = q
        THEN ans[CHOOSE k \in DOMAIN ans :
                   ans[k].submission_id = i /\ ans[k].question_id = q].llm_score
        ELSE NULL

(* C19: a successful overall dispute, keep or update, adds exactly one     *)
(* submission_regrades row, the only one of its submission, whose old      *)
(* results hold every question's llm_score before the request and whose    *)
(* new results hold every question's llm_score after it.                   *)
C19_AttemptDisputeSnapshots ==
    [][DisputeDone(resp', "overall")
         => /\ Len(submission_regrades') = Len(submission_regrades) + 1
            /\ \A r \in DOMAIN submission_regrades :
                 /\ submission_regrades'[r] = submission_regrades[r]
                 /\ submission_regrades[r].submission_id # resp'.sub
            /\ regrades' = regrades
            /\ LET row == submission_regrades'[Len(submission_regrades')]
                   nq == Cardinality(ExamQuestions(submissions[resp'.sub].exam_id))
               IN  /\ row.submission_id = resp'.sub
                   /\ row.decision = resp'.decision
                   /\ DOMAIN row.old_results = 1..nq
                   /\ DOMAIN row.new_results = 1..nq
                   /\ \A n \in 1..nq :
                        /\ row.old_results[n].score = OracleScoreAt(answers, resp'.sub, n)
                        /\ row.new_results[n].score = OracleScoreAt(answers', resp'.sub, n)]_vars

(* An overall dispute has just ended with update and changed the score of  *)
(* the first question from 1 to 3; the second question has no score.       *)
C19_Witness ==
    /\ DisputeDone(resp, "overall") /\ resp.decision = "update"
    /\ \E r \in DOMAIN submission_regrades :
         /\ submission_regrades[r].submission_id = resp.sub
         /\ submission_regrades[r].old_results[1].score = 1
         /\ submission_regrades[r].new_results[1].score = 3
         /\ submission_regrades[r].new_results[2].score = NULL

(* The effective score of an answer: the instructor's score when the       *)
(* answer is overridden, else the oracle's, else zero.                     *)
EffectiveScore(a) ==
    IF a.instructor_edited /\ a.instructor_score # NULL THEN a.instructor_score
    ELSE ScoreOrZero(a.llm_score)

RECURSIVE EffectiveTotalOver(_, _)
EffectiveTotalOver(ans, K) ==
    IF K = {} THEN 0
    ELSE LET k == CHOOSE k \in K : TRUE
         IN  EffectiveScore(ans[k]) + EffectiveTotalOver(ans, K \ {k})

EffectiveTotal(ans, i) ==
    EffectiveTotalOver(ans, { k \in DOMAIN ans : ans[k].submission_id = i })

(* C20: the old_total and new_total a successful dispute returns are the   *)
(* sums of the effective scores of the submission's answers before and     *)
(* after the request; an update of an overridden answer leaves the total   *)
(* as it was.                                                              *)
C20_TotalIsSumOfEffectiveScores ==
    [][(resp'.op = "dispute" /\ resp'.ok)
         => /\ resp'.old_total = EffectiveTotal(answers, resp'.sub)
            /\ resp'.new_total = EffectiveTotal(answers', resp'.sub)
            /\ (/\ resp'.target = "question"
                /\ answers[resp'.answer].instructor_edited
                /\ answers[resp'.answer].instructor_score # NULL)
               => resp'.new_total = resp'.old_total]_vars

(* A question dispute has just updated the oracle score of an answer the   *)
(* instructor has overridden: the total is the same as before.             *)
C20_Witness ==
    /\ DisputeDone(resp, "question") /\ resp.decision = "update"
    /\ answers[resp.answer].instructor_edited
    /\ answers[resp.answer].instructor_score # resp.new_score
    /\ resp.new_score # resp.old_score
    /\ answers[resp.answer].llm_score = resp.new_score
    /\ resp.new_total = resp.old_total

----
(* call_together_ai: what the caller gets for a response of the oracle     *)

(* response.status_code *)
OracleStatuses == {200, 400, 401, 429, 500, 503}

(* response.text: kind "text" is a body that is not JSON; error is "dict"  *)
(* when the JSON object has an "error" member that is an object, and       *)
(* message is that object's "message" ("none" when it has none); content   *)
(* is choices[0].message.content ("none" when there are no choices).       *)
OracleBody(kind, error, message, content) ==
    [kind |-> kind, error |-> error, message |-> message, content |-> content]

OracleBodies ==
    { OracleBody("text", "none", "none", "none"),
      OracleBody("json", "none", "none", "none"),
      OracleBody("json", "dict", "none", "none"),
      OracleBody("json", "dict", "m1", "none"),
      OracleBody("json", "dict", "m2", "none"),
      OracleBody("json", "none", "none", "c1") }

(* "Try to parse error message from Together.ai response" *)
ParsedErrorMessage(body) ==
    IF body.kind = "json" /\ body.error = "dict" /\ body.message # "none"
    THEN body.message
    ELSE "Service unavailable. Please try again later."

(* "Return user-friendly error message based on status code": the detail   *)
(* as the sequence of the pieces it is put together from                   *)
ErrorDetail(status, body) ==
    IF status = 503
    THEN << "The AI service is temporarily unavailable. Please try again in a few moments." >>
    ELSE IF status = 429
    THEN << "Too many requests. Please wait a moment before trying again." >>
    ELSE IF status = 401
    THEN << "API authentication failed. Please check your API key." >>
    ELSE IF status = 400
    THEN << "Invalid request to AI service: ", ParsedErrorMessage(body) >>
    ELSE << ParsedErrorMessage(body) >>

(* The outcome of call_together_ai: the content, or the HTTPException      *)
(* raised                                                                  *)
CallTogetherAi(status, body) ==
    IF status # 200
    THEN [raised |-> TRUE, status_code |-> IF status = 503 THEN 503 ELSE 500,
          detail |-> ErrorDetail(status, body), content |-> "none"]
    ELSE IF body.kind = "text"
    THEN [raised |-> TRUE, status_code |-> 500,
          detail |-> << "An error occurred while connecting to the AI service: ",
                        "JSONDecodeError", ". Please try again." >>,
          content |-> "none"]
    ELSE IF body.content = "none"
    THEN [raised |-> TRUE, status_code |-> 500,
          detail |-> << "Unexpected response format from AI service" >>,
          content |-> "none"]
    ELSE [raised |-> FALSE, status_code |-> 200, detail |-> << >>,
          content |-> body.content]

(* Two calls, each with its own response of the oracle *)
OracleResponses == [status : OracleStatuses, body : OracleBodies]

NoOutcome == [raised |-> FALSE, status_code |-> 0, detail |-> << >>, content |-> "none"]

InitCall ==
    /\ now = 0
    /\ exams = [e \in Exams |-> [due_date |-> NULL, time_limit_minutes |-> NULL]]
    /\ submissions = << >>
    /\ answers = << >>
    /\ regrades = << >>
    /\ submission_regrades = << >>
    /\ assigned_disputes = << >>
    /\ \E r1, r2 \in OracleResponses :
         resp = [op |-> "call", done |-> 0, first |-> r1, second |-> r2,
                 outcome1 |-> NoOutcome, outcome2 |-> NoOutcome]

(* The first call, then the second *)
CallFirst ==
    /\ resp.done = 0
    /\ resp' = [resp EXCEPT !.done = 1,
                            !.outcome1 = CallTogetherAi(resp.first.status, resp.first.body)]
    /\ UNCHANGED <<now, exams, submissions, answers, disputes>>

CallSecond ==
    /\ resp.done = 1
    /\ resp' = [resp EXCEPT !.done = 2,
                            !.outcome2 = CallTogetherAi(resp.second.status, resp.second.body)]
    /\ UNCHANGED <<now, exams, submissions, answers, disputes>>

NextCall == CallFirst \/ CallSecond

SpecCall == InitCall /\ [][NextCall]_vars

----
(* extract_json_from_response, on texts that are sequences of characters   *)

Quote == "\""

Backslash == "\\"

Newline == "\n"

(* A control character other than newline, carriage return and tab *)
FormFeed == "\f"

(* The backquote, written as a character the strings of the model can    *)
(* hold                                                                    *)
Backquote == "^"

Fence == << Backquote, Backquote, Backquote >>

(* The character of s at position i, "" past the end *)
At(s, i) == IF i \in 1..Len(s) THEN s[i] ELSE ""

(* The whitespace str.strip() and the JSON grammar skip *)
IsSpace(c) == c \in {" ", Newline}

RECURSIVE LStrip(_)
LStrip(s) == IF s # << >> /\ IsSpace(Head(s)) THEN LStrip(Tail(s)) ELSE s

RECURSIVE RStrip(_)
RStrip(s) ==
    IF s # << >> /\ IsSpace(s[Len(s)]) THEN RStrip(SubSeq(s, 1, Len(s) - 1)) ELSE s

(* text.strip() *)
Strip(s) == RStrip(LStrip(s))

(* text.startswith(p) *)
StartsWith(s, p) == Len(s) >= Len(p) /\ SubSeq(s, 1, Len(p)) = p

(* text.find(c): the first position of c, 0 when there is none *)
Find(s, c) ==
    IF \E i \in 1..Len(s) : s[i] = c
    THEN CHOOSE i \in 1..Len(s) : s[i] = c /\ \A j \in 1..(i - 1) : s[j] # c
    ELSE 0

(* text.rfind(c): the last position of c, 0 when there is none *)
RFind(s, c) ==
    IF \E i \in 1..Len(s) : s[i] = c
    THEN CHOOSE i \in 1..Len(s) : s[i] = c /\ \A j \in (i + 1)..Len(s) : s[j] # c
    ELSE 0

(* text.split("\n") *)
RECURSIVE SplitLines(_)
SplitLines(s) ==
    IF Find(s, Newline) = 0 THEN << s >>
    ELSE << SubSeq(s, 1, Find(s, Newline) - 1) >>
           \o SplitLines(SubSeq(s, Find(s, Newline) + 1, Len(s)))

(* "\n".join(lines) *)
RECURSIVE JoinLines(_)
JoinLines(lines) ==
    IF lines = << >> THEN << >>
    ELSE IF Len(lines) = 1 THEN lines[1]
    ELSE lines[1] \o << Newline >> \o JoinLines(Tail(lines))

(* "Remove markdown code blocks if present": the lines after the first, up *)
(* to the first later line that starts with a fence                        *)
RemoveFence(text) ==
    LET lines == SplitLines(text)
        closing == { i \in 2..Len(lines) : StartsWith(Strip(lines[i]), Fence) }
    IN  IF closing # {}
        THEN JoinLines(SubSeq(lines, 2, (CHOOSE i \in closing : \A j \in closing : i <= j) - 1))
        ELSE JoinLines(SubSeq(lines, 2, Len(lines)))

(* Variant of IsEscapeLead for a scan that knows no escapes. *)
IsEscapeLeadNever(c) == FALSE

(* if char is the backslash: escape_next = True *)
IsEscapeLead(c) == c = Backslash

(* "Count braces and brackets to find the matching closing delimiter":     *)
(* the loop from position i on, with its counters and flags; the result    *)
(* is the position the loop breaks at, or 0 when it runs to the end.       *)
RECURSIVE Scan(_, _, _, _, _, _, _)
Scan(text, i, is_array, brace_count, bracket_count, in_string, escape_next) ==
    IF i > Len(text) THEN 0
    ELSE IF escape_next
    THEN Scan(text, i + 1, is_array, brace_count, bracket_count, in_string, FALSE)
    ELSE IF IsEscapeLead(text[i])
    THEN Scan(text, i + 1, is_array, brace_count, bracket_count, in_string, TRUE)
    ELSE IF text[i] = Quote
    THEN Scan(text, i + 1, is_array, brace_count, bracket_count, ~in_string, FALSE)
    ELSE IF in_string
    THEN Scan(text, i + 1, is_array, brace_count, bracket_count, TRUE, FALSE)
    ELSE LET braces == IF text[i] = "{" THEN brace_count + 1
                       ELSE IF text[i] = "}" THEN brace_count - 1 ELSE brace_count
             brackets == IF text[i] = "[" THEN bracket_count + 1
                         ELSE IF text[i] = "]" THEN bracket_count - 1 ELSE bracket_count
         IN  IF (IF is_array THEN brackets ELSE braces) = 0
             THEN i
             ELSE Scan(text, i + 1, is_array, braces, brackets, FALSE, FALSE)

(* The JSON grammar of json.loads on these characters: objects, arrays,    *)
(* strings with the escapes \" and \\, and the number 1.  Each operator    *)
(* gives the position after what it has read, 0 when the text is not       *)
(* well formed.                                                            *)
RECURSIVE SkipSpace(_, _)
SkipSpace(s, i) == IF IsSpace(At(s, i)) THEN SkipSpace(s, i + 1) ELSE i

RECURSIVE StringBody(_, _)
StringBody(s, i) ==
    IF i > Len(s) \/ s[i] \in {Newline, FormFeed} THEN 0
    ELSE IF s[i] = Quote THEN i + 1
    ELSE IF s[i] = Backslash
    THEN IF At(s, i + 1) \in {Quote, Backslash} THEN StringBody(s, i + 2) ELSE 0
    ELSE StringBody(s, i + 1)

RECURSIVE JsonValue(_, _)
RECURSIVE Members(_, _)
RECURSIVE Elements(_, _)

(* After a member's value or an element: "," goes on, the closing          *)
(* delimiter ends, anything else fails                                     *)
Members(s, i) ==
    LET k == IF At(s, SkipSpace(s, i)) = Quote THEN StringBody(s, SkipSpace(s, i) + 1) ELSE 0
        c == IF k = 0 THEN 0 ELSE SkipSpace(s, k)
        v == IF c # 0 /\ At(s, c) = ":" THEN JsonValue(s, c + 1) ELSE 0
        n == IF v = 0 THEN 0 ELSE SkipSpace(s, v)
    IN  IF n = 0 THEN 0
        ELSE IF At(s, n) = "," THEN Members(s, n + 1)
        ELSE IF At(s, n) = "}" THEN n + 1
        ELSE 0

Elements(s, i) ==
    LET v == JsonValue(s, i)
        n == IF v = 0 THEN 0 ELSE SkipSpace(s, v)
    IN  IF n = 0 THEN 0
        ELSE IF At(s, n) = "," THEN Elements(s, n + 1)
        ELSE IF At(s, n) = "]" THEN n + 1
        ELSE 0

JsonValue(s, i) ==
    LET j == SkipSpace(s, i)
    IN  IF At(s, j) = "{"
        THEN IF At(s, SkipSpace(s, j + 1)) = "}" THEN SkipSpace(s, j + 1) + 1
             ELSE Members(s, j + 1)
        ELSE IF At(s, j) = "["
        THEN IF At(s, SkipSpace(s, j + 1)) = "]" THEN SkipSpace(s, j + 1) + 1
             ELSE Elements(s, j + 1)
        ELSE IF At(s, j) = Quote THEN StringBody(s, j + 1)
        ELSE IF At(s, j) = "1" THEN j + 1
        ELSE 0

(* The text is one JSON value, with nothing but whitespace around it *)
WellFormed(s) == JsonValue(s, 1) # 0 /\ SkipSpace(s, JsonValue(s, 1)) = Len(s) + 1

(* The structure a well-formed text denotes: the text without the          *)
(* whitespace between its tokens                                           *)
RECURSIVE Structure(_, _, _)
Structure(s, i, in_string) ==
    IF i > Len(s) THEN << >>
    ELSE IF in_string /\ s[i] = Backslash
    THEN << s[i], At(s, i + 1) >> \o Structure(s, i + 2, TRUE)
    ELSE IF s[i] = Quote THEN << s[i] >> \o Structure(s, i + 1, ~in_string)
    ELSE IF ~in_string /\ IsSpace(s[i]) THEN Structure(s, i + 1, FALSE)
    ELSE << s[i] >> \o Structure(s, i + 1, in_string)

(* What extract_json_from_response returns or raises; json_str is the      *)
(* captured substring.                                                     *)
Extracted(kind, json_str, value) == [kind |-> kind, json_str |-> json_str, value |-> value]

(* json.loads(json_str) *)
JsonLoads(s) ==
    IF WellFormed(s) THEN Extracted("ok", s, Structure(s, 1, FALSE))
    ELSE Extracted("error", s, << >>)

(* re.sub(r',\s*}', '}', ...) and re.sub(r',\s*]', ']', ...): a comma      *)
(* followed by whitespace and a closing delimiter is dropped with the      *)
(* whitespace, wherever it stands.                                         *)
RECURSIVE RemoveTrailingCommas(_, _)
RemoveTrailingCommas(s, close) ==
    IF s = << >> THEN s
    ELSE IF Head(s) = "," /\ At(s, SkipSpace(s, 2)) = close
    THEN RemoveTrailingCommas(SubSeq(s, SkipSpace(s, 2), Len(s)), close)
    ELSE << Head(s) >> \o RemoveTrailingCommas(Tail(s), close)

(* "Try multiple fixes for common JSON issues": the trailing commas, then  *)
(* strip()                                                                 *)
Repaired(s) == Strip(RemoveTrailingCommas(RemoveTrailingCommas(s, "}"), "]"))

(* "Remove control characters that might break JSON": every character      *)
(* below 32 but newline, carriage return and tab is dropped, wherever it   *)
(* stands.                                                                 *)
ControlFree(s) == SelectSeq(s, LAMBDA c : c # FormFeed)

(* The parse of the captured substring, with the fixes when it fails *)
ParseCaptured(s) ==
    IF JsonLoads(s).kind = "ok" THEN JsonLoads(s)
    ELSE IF JsonLoads(Repaired(s)).kind = "ok"
    THEN Extracted("ok", s, JsonLoads(Repaired(s)).value)
    ELSE IF JsonLoads(ControlFree(Repaired(s))).kind = "ok"
    THEN Extracted("ok", s, JsonLoads(ControlFree(Repaired(s))).value)
    ELSE Extracted("error", s, << >>)

(* The text from start on, captured up to the delimiter the scan stops     *)
(* at, or, when the scan does not balance, up to the last closing          *)
(* delimiter of the text                                                   *)
Capture(text, start, is_array) ==
    LET end == Scan(text, start, is_array, 0, 0, FALSE, FALSE)
        last == RFind(text, IF is_array THEN "]" ELSE "}")
    IN  IF end # 0 THEN ParseCaptured(SubSeq(text, start, end))
        ELSE IF last < start THEN Extracted("error", << >>, << >>)
        ELSE ParseCaptured(SubSeq(text, start, last))

ExtractJsonFromResponse(raw) ==
    LET stripped == Strip(raw)
        text == IF StartsWith(stripped, Fence) THEN RemoveFence(stripped) ELSE stripped
        start_idx_obj == Find(text, "{")
        start_idx_arr == Find(text, "[")
    IN  IF start_idx_obj = 0 /\ start_idx_arr = 0 THEN Extracted("error", << >>, << >>)
        ELSE IF start_idx_arr = 0 THEN Capture(text, start_idx_obj, FALSE)
        ELSE IF start_idx_obj = 0 THEN Capture(text, start_idx_arr, TRUE)
        ELSE IF start_idx_arr < start_idx_obj THEN Capture(text, start_idx_arr, TRUE)
        ELSE Capture(text, start_idx_obj, FALSE)

(* Well-formed JSON objects: a number, strings that hold a closing brace,  *)
(* an escaped quote, an opening brace or an escaped backslash, an array    *)
(* whose string holds a closing bracket, the empty object, and an object   *)
(* written over three lines                                                *)
Str(chars) == << Quote >> \o chars \o << Quote >>

Obj(value) == << "{" >> \o Str(<< "a" >>) \o << ":" >> \o value \o << "}" >>

Payloads ==
    { Obj(<< "1" >>),
      Obj(Str(<< "}" >>)),
      Obj(Str(<< Backslash, Quote >>)),
      Obj(<< "[" >> \o Str(<< "]" >>) \o << "]" >>),
      Obj(Obj(Str(<< "{" >>))),
      Obj(Str(<< Backslash, Backslash >>)),
      << "{", "}" >>,
      << "{", Newline >> \o Str(<< "a" >>) \o << ":", " ", "1", Newline, "}" >> }

(* Commentary before the payload: none, words, a line, words with a        *)
(* bracketed number, words with a quote                                    *)
Prefixes ==
    { << >>, << "a", " " >>, << "a", Newline >>, << "a", "[", "1", "]", " " >>,
      << "a", Quote, " " >> }

(* Commentary after the payload: none, words, a line with a closing        *)
(* brace, words with a quote                                               *)
Suffixes ==
    { << >>, << " ", "a" >>, << Newline, "a", "}" >>, << " ", Quote, "a" >> }

(* How the reply wraps the payload: not fenced, the whole reply fenced     *)
(* (with a language tag), or the payload fenced between the commentary     *)
WrapModes == {"bare", "fenced", "inner"}

Wrap(mode, pre, payload, post) ==
    IF mode = "fenced"
    THEN Fence \o << "a", Newline >> \o pre \o payload \o post \o << Newline >> \o Fence
    ELSE IF mode = "inner"
    THEN pre \o << Newline >> \o Fence \o << Newline >> \o payload
             \o << Newline >> \o Fence \o << Newline >> \o post
    ELSE pre \o payload \o post

NotExtracted == Extracted("none", << >>, << >>)

InitExtract ==
    /\ now = 0
    /\ exams = [e \in Exams |-> [due_date |-> NULL, time_limit_minutes |-> NULL]]
    /\ submissions = << >>
    /\ answers = << >>
    /\ regrades = << >>
    /\ submission_regrades = << >>
    /\ assigned_disputes = << >>
    /\ \E mode \in WrapModes, pre \in Prefixes, payload \in Payloads, post \in Suffixes :
         resp = [op |-> "extract", done |-> 0, mode |-> mode, pre |-> pre,
                 payload |-> payload, post |-> post,
                 text |-> Wrap(mode, pre, payload, post),
                 bare |-> NotExtracted, wrapped |-> NotExtracted]

(* The payload alone is extracted, then the reply that wraps it *)
ExtractBare ==
    /\ resp.done = 0
    /\ resp' = [resp EXCEPT !.done = 1, !.bare = ExtractJsonFromResponse(resp.payload)]
    /\ UNCHANGED <<now, exams, submissions, answers, disputes>>

ExtractWrapped ==
    /\ resp.done = 1
    /\ resp' = [resp EXCEPT !.done = 2, !.wrapped = ExtractJsonFromResponse(resp.text)]
    /\ UNCHANGED <<now, exams, submissions, answers, disputes>>

NextExtract == ExtractBare \/ ExtractWrapped

SpecExtract == InitExtract /\ [][NextExtract]_vars

----
(* Properties of the review queue *)

(* C21: no attempt of an assigned exam has both a whole-attempt dispute    *)
(* and a question dispute, nor two disputes of the same question.          *)
C21_AssignedMutualExclusion ==
    \A d1, d2 \in DOMAIN assigned_disputes :
      (d1 # d2 /\ assigned_disputes[d1].submission_id = assigned_disputes[d2].submission_id)
        => /\ assigned_disputes[d1].question_id # NULL
           /\ assigned_disputes[d2].question_id # NULL
           /\ assigned_disputes[d1].question_id # assigned_disputes[d2].question_id

(* C22: a dispute of an assigned exam is recorded without an oracle call   *)
(* and without a write to any other table; a successful request appends    *)
(* one pending row with no decision, response, resolver or resolution      *)
(* time, and a refused request writes nothing.                             *)
C22_SubmitOnlyRecordsPending ==
    [][resp'.op = "assigned_dispute"
         => /\ ~resp'.called
            /\ UNCHANGED <<exams, submissions, answers, regrades, submission_regrades>>
            /\ IF resp'.ok
               THEN /\ Len(assigned_disputes') = Len(assigned_disputes) + 1
                    /\ SubSeq(assigned_disputes', 1, Len(assigned_disputes))
                         = assigned_disputes
                    /\ resp'.dispute = Len(assigned_disputes')
                    /\ LET row == assigned_disputes'[Len(assigned_disputes')] IN
                         /\ row.submission_id = resp'.sub
                         /\ row.status = "pending"
                         /\ row.instructor_decision = "None"
                         /\ row.instructor_response = "None"
                         /\ row.resolved_by = NULL
                         /\ row.resolved_at = NULL
               ELSE assigned_disputes' = assigned_disputes]_vars

(* A question dispute has just been recorded next to an earlier dispute,   *)
(* and its row is pending.                                                 *)
C22_Witness ==
    /\ resp.op = "assigned_dispute" /\ resp.ok /\ resp.target = "question"
    /\ resp.dispute = 2 /\ Len(assigned_disputes) = 2
    /\ assigned_disputes[2].status = "pending"
    /\ assigned_disputes[2].question_id # NULL

(* C23: a request to resolve a dispute that is already resolved is refused *)
(* with a conflict (409) and leaves the dispute rows as they are.          *)
C23_ResolvedRefusedWithConflict ==
    [][(/\ resp'.op = "resolve"
        /\ resp'.dispute \in DOMAIN assigned_disputes
        /\ assigned_disputes[resp'.dispute].status = "resolved")
         => /\ resp'.status = 409
            /\ assigned_disputes' = assigned_disputes]_vars

----
(* Properties of the oracle calls *)

(* There is no reply, or the reply lacks a key the handler requires.       *)
QuestionReplyFails(v) ==
    v.kind = "fail" \/ ~({"decision", "question_score_new", "feedback_new"} \subseteq v.keys)

OverallReplyFails(v) == v.kind = "fail" \/ ~(OverallKeys \subseteq v.keys)

(* C26: when the oracle call fails, submit_response and the dispute        *)
(* handlers end with an error and leave exams, submissions, answers and    *)
(* the dispute tables as they were.                                        *)
C26_OracleFailureLeavesStore ==
    [][/\ \A s \in Students, q \in ExamQuestions(3), text \in Texts :
            RecordAnswer(3, s, q, text, OracleFail)
              => ~resp'.ok /\ UNCHANGED <<exams, submissions, answers, disputes>>
       /\ \A s \in Students, qn \in {1, 2}, v \in OracleQuestionVerdicts :
            (QuestionReplyFails(v) /\ SubmitDispute(3, s, "question", qn, v) /\ resp'.called)
              => ~resp'.ok /\ UNCHANGED <<exams, submissions, answers, disputes>>
       /\ \A s \in Students, v \in OracleOverallVerdicts :
            (OverallReplyFails(v) /\ SubmitDispute(3, s, "overall", NULL, v) /\ resp'.called)
              => ~resp'.ok /\ UNCHANGED <<exams, submissions, answers, disputes>>]_vars

(* The oracle has just failed on an attempt dispute, after an answer was   *)
(* recorded, and no dispute row exists.                                    *)
C26_Witness ==
    /\ resp.op = "dispute" /\ resp.called /\ ~resp.ok /\ resp.target = "overall"
    /\ Len(answers) > 3
    /\ regrades = << >> /\ submission_regrades = << >>

(* A grading reply that parses to an object without total_score *)
IncompleteGrade == [kind |-> "json", total_score |-> NULL, feedback |-> ""]

(* C27: submit_response given a grading reply without total_score ends     *)
(* with an error and stores no score.                                      *)
C27_IncompleteReplyNotRecorded ==
    [][\A s \in Students, q \in ExamQuestions(3) :
         RecordAnswer(3, s, q, "b", IncompleteGrade)
           => ~resp'.ok /\ answers' = answers]_vars

----
(* Properties of the oracle client *)

(* C28: two failed calls whose responses have the same status code raise   *)
(* the same detail, whatever the bodies of the responses.                  *)
C28_DetailIndependentOfBody ==
    (/\ resp.done = 2
     /\ resp.first.status = resp.second.status
     /\ resp.first.status # 200)
      => resp.outcome1.detail = resp.outcome2.detail

----
(* Properties of the extraction *)

(* C29: the reply that wraps a well-formed object in commentary and a      *)
(* fence is extracted to the structure the object alone is extracted to.   *)
C29_ExtractionRoundTrip ==
    resp.done = 2
      => /\ resp.bare.kind = "ok"
         /\ resp.wrapped.kind = resp.bare.kind
         /\ resp.wrapped.value = resp.bare.value

(* No opening delimiter stands before the payload. *)
DelimiterFree(s) == \A i \in 1..Len(s) : s[i] \notin {"{", "["}

(* C30: the substring captured from a well-formed payload, alone or        *)
(* wrapped with nothing but delimiter-free text before it, is the payload  *)
(* itself, whatever braces, brackets and escaped quotes its strings hold   *)
(* and whatever follows it.                                                *)
C30_CaptureIsPayload ==
    /\ resp.done >= 1 => resp.bare.json_str = resp.payload
    /\ (resp.done = 2 /\ DelimiterFree(resp.pre)) => resp.wrapped.json_str = resp.payload

(* A payload whose string is an escaped quote has been captured from a     *)
(* reply that goes on with a closing brace after it.                       *)
C30_Witness ==
    /\ resp.done = 2
    /\ resp.payload = Obj(Str(<< Backslash, Quote >>))
    /\ resp.post = << Newline, "a", "}" >>
    /\ resp.mode = "bare"
    /\ resp.pre = << "a", " " >>
    /\ resp.wrapped.json_str = resp.payload

----
(* Properties of start_exam *)

(* The end_time of an attempt of exam e started at t *)
FreshEndTime(e, t) ==
    IF exams[e].time_limit_minutes # NULL /\ exams[e].time_limit_minutes > 0
    THEN t + exams[e].time_limit_minutes
    ELSE NULL

(* C31: a start request that finds an in-progress submission without       *)
(* answers stores started_at = now and end_time = now + the exam's time    *)
(* limit (none when the exam has no time limit), whatever the row held.    *)
C31_StartWithoutAnswersResets ==
    [][(resp'.op = "start" /\ resp'.ok)
         => \A i \in resp'.ids :
              (i \in DOMAIN submissions /\ AnswersOf(answers, i) = {})
                => /\ submissions'[i].started_at = now
                   /\ submissions'[i].end_time = FreshEndTime(submissions[i].exam_id, now)
                   /\ submissions'[i].submitted_at = NULL]_vars

(* A start request has just reset a submission without answers that an     *)
(* earlier start request had started, on an exam with a time limit.        *)
C31_Witness ==
    /\ resp.op = "start" /\ resp.ok /\ resp.branch = "reset_no_answers"
    /\ now >= 3
    /\ \E i \in resp.ids :
         /\ AnswersOf(answers, i) = {}
         /\ submissions[i].started_at = now - 1
         /\ submissions[i].end_time = now

----
(* start_exam on an attempt whose exam changes its time limit.  The store  *)
(* at the first step is what assign_exam at -1, start_exam at 0 and, for a *)
(* submission with an answer, submit_response at 1 leave behind.           *)

(* Exam.time_limit_minutes: none, one unit, or longer than a day *)
StartTimeLimits == {NULL, 1, DayUnits + 2}

InitStart ==
    /\ now = 2
    /\ \E tl \in StartTimeLimits :
         /\ exams = [e \in Exams |->
                       [due_date |-> NULL,
                        time_limit_minutes |-> IF e = 1 THEN tl ELSE NULL]]
         /\ submissions = << NewSubmission(1, 1, 0, NULL, IF tl = NULL THEN NULL ELSE tl) >>
    /\ answers \in { << >>, << NewAnswer(1, 1, "a", 1, "f1") >> }
    /\ regrades = << >>
    /\ submission_regrades = << >>
    /\ assigned_disputes = << >>
    /\ resp = NoResp

NextStart ==
    \/ \E e \in Exams, s \in Students : StartExam(e, s)
    \/ \E e \in Exams, s \in Students : ResumeExam(e, s)
    \/ \E q \in {1, 2}, reply \in GradeReplies : RecordAnswer(1, 1, q, "a", reply)
    \/ \E e \in Exams, tl \in StartTimeLimits : AssignExam(e, <<1>>, tl, NULL)

SpecStart == InitStart /\ [][NextStart]_vars

(* C32: a start request on an in-progress submission that has answers      *)
(* leaves a started_at of the last day as it is; a started_at older than a *)
(* day or in the future is reset to now with end_time = now + time limit,  *)
(* and the stored started_at and end_time are then the returned ones.      *)
C32_StartWithAnswersKeepsOrResets ==
    [][(resp'.op = "start" /\ resp'.ok)
         => \A i \in resp'.ids :
              (/\ i \in DOMAIN submissions
               /\ AnswersOf(answers, i) # {}
               /\ submissions[i].started_at # NULL)
                => IF now - submissions[i].started_at <= DayUnits
                      /\ now - submissions[i].started_at >= 0
                   THEN submissions'[i].started_at = submissions[i].started_at
                   ELSE /\ submissions'[i].started_at = now
                        /\ submissions'[i].end_time = FreshEndTime(submissions[i].exam_id, now)
                        /\ resp'.started_at = submissions'[i].started_at
                        /\ resp'.end_time = submissions'[i].end_time]_vars

----
(* The lifecycle handlers as the event loop runs them.  Every handler is a *)
(* coroutine (async def) on one event loop: a request runs alone from one  *)
(* await to the next, and other requests run while it awaits the oracle.   *)
(* start_exam has no await; submit_response awaits call_together_ai once,  *)
(* before it looks the submission up; the sweep of get_assigned_exams      *)
(* awaits it once per ungraded answer, inside the loop.                    *)

Requests == {1, 2}

(* A request: the handler, where it is (idle, await, done), its arguments, *)
(* the number of submission rows when it was received, and its session:    *)
(* the column assignments not yet committed, to the submission (sub) and   *)
(* to answers, and the answers the sweep has still to grade.               *)
IdleRequest ==
    [handler |-> "none", pc |-> "idle", status |-> 0,
     exam |-> 0, student |-> 0, question |-> 0, text |-> "",
     rows_at_call |-> 0, sub |-> 0, todo |-> << >>,
     pending_submission |-> << >>, pending_answers |-> << >>,
     oracle_calls |-> 0]

InFlight(reqs) == [op |-> "await", reqs |-> reqs]

(* session.dirty: the number of uncommitted assignments of a request *)
Pending(c) == Len(c.pending_submission) + Len(c.pending_answers)

RECURSIVE Ascending(_)
Ascending(S) ==
    IF S = {} THEN << >>
    ELSE LET m == CHOOSE x \in S : \A y \in S : x <= y
         IN  <<m>> \o Ascending(S \ {m})

(* submit_response up to "await call_together_ai": the exam, the question  *)
(* and the rubric are read, nothing is written.                            *)
RecordCall(r, e, s, q, text) ==
    /\ resp.reqs[r].pc = "idle"
    /\ UNCHANGED <<now, exams, submissions, answers, disputes>>
    /\ resp' = InFlight([resp.reqs EXCEPT ![r] =
                  IF q \notin ExamQuestions(e)
                  THEN [@ EXCEPT !.handler = "record", !.pc = "done", !.status = 404]
                  ELSE [@ EXCEPT !.handler = "record", !.pc = "await",
                                 !.exam = e, !.student = s, !.question = q, !.text = text,
                                 !.rows_at_call = Len(submissions),
                                 !.oracle_calls = 1]])

(* Variant of AwaitRecordTargets that looks the submission up among the    *)
(* rows the store had when the request was received.                       *)
AwaitRecordTargetsAtCall(c) ==
    LET S == { i \in InProgressOf(c.exam, c.student) : i <= c.rows_at_call }
    IN  IF S = {} THEN {0} ELSE FirstByStartedDesc(S)

(* "Create or get in-progress submission": the query runs after the await, *)
(* on the store as it is then.                                             *)
AwaitRecordTargets(c) == RecordTargets(c.exam, c.student)

(* What submit_response commits: the rows of RecordInto *)
RecordEffect(e, s, q, text, reply, i) ==
    LET sid == IF i = 0 THEN Len(submissions) + 1 ELSE i
        subs1 == IF i = 0
                 THEN Append(submissions, NewSubmission(e, s, now, NULL, NULL))
                 ELSE IF submissions[i].started_at = NULL
                      THEN [submissions EXCEPT ![i].started_at = now]
                      ELSE submissions
        ans1 == UpsertAnswer(answers, sid, q, text, reply)
        done == AllAnswered(e, ans1, sid) /\ subs1[sid].submitted_at = NULL
    IN  [sid |-> sid, answers |-> ans1,
         submissions |-> IF done THEN [subs1 EXCEPT ![sid] = MarkSubmitted(@, now)]
                         ELSE subs1]

(* submit_response from the oracle's reply to the commit *)
RecordReturn(r, reply) ==
    LET c == resp.reqs[r] IN
    /\ c.handler = "record" /\ c.pc = "await"
    /\ now < MaxTime
    /\ now' = now + 1
    /\ UNCHANGED <<exams, disputes>>
    /\ IF reply.kind = "fail"
       THEN /\ UNCHANGED <<submissions, answers>>
            /\ resp' = InFlight([resp.reqs EXCEPT ![r].pc = "done", ![r].status = 500])
       ELSE \E i \in AwaitRecordTargets(c) :
              LET eff == RecordEffect(c.exam, c.student, c.question, c.text, reply, i) IN
              /\ submissions' = eff.submissions
              /\ answers' = eff.answers
              /\ resp' = InFlight([resp.reqs EXCEPT ![r].pc = "done", ![r].status = 200,
                                                    ![r].sub = eff.sid])

(* The row start_exam leaves for the in-progress submission i it found *)
StartRow(e, i) ==
    LET sub == submissions[i]
        start_time == IF StartedAtImplausible(sub.started_at) THEN now ELSE sub.started_at
    IN  IF AnswersOf(answers, i) = {}
        THEN [sub EXCEPT !.started_at = now, !.end_time = EndTimeFor(e, now)]
        ELSE IF ~HasTimeLimit(e)
        THEN [sub EXCEPT !.started_at = start_time, !.end_time = NULL]
        ELSE IF start_time # NULL
                /\ EndTimeStale(sub.end_time, start_time + exams[e].time_limit_minutes)
        THEN [sub EXCEPT !.started_at = start_time,
                         !.end_time = start_time + exams[e].time_limit_minutes]
        ELSE sub

(* start_exam: no await between the lookup and the commit *)
StartWhole(r, e, s) ==
    /\ resp.reqs[r].pc = "idle"
    /\ now < MaxTime
    /\ now' = now + 1
    /\ UNCHANGED <<exams, answers, disputes>>
    /\ IF InProgressOf(e, s) = {}
       THEN /\ submissions' = Append(submissions, NewSubmission(e, s, now, NULL, EndTimeFor(e, now)))
            /\ resp' = InFlight([resp.reqs EXCEPT ![r] =
                          [@ EXCEPT !.handler = "start", !.pc = "done", !.status = 200,
                                    !.exam = e, !.student = s,
                                    !.rows_at_call = Len(submissions),
                                    !.sub = Len(submissions) + 1]])
       ELSE \E i \in FirstByStartedDesc(InProgressOf(e, s)) :
              /\ submissions' = [submissions EXCEPT ![i] = StartRow(e, i)]
              /\ resp' = InFlight([resp.reqs EXCEPT ![r] =
                            [@ EXCEPT !.handler = "start", !.pc = "done", !.status = 200,
                                      !.exam = e, !.student = s,
                                      !.rows_at_call = Len(submissions), !.sub = i]])

(* The assignments the sweep makes to an overdue submission before it      *)
(* grades: submitted_at, and started_at when the row has none.             *)
SweepAssignments(sub) ==
    <<[col |-> "submitted_at", value |-> now]>>
      \o (IF sub.started_at = NULL THEN <<[col |-> "started_at", value |-> now]>> ELSE << >>)

(* db.commit() of the sweep: the pending assignments reach the rows *)
CommitSubmission(sub, assignments) ==
    [sub EXCEPT !.submitted_at = IF \E p \in DOMAIN assignments : assignments[p].col = "submitted_at"
                                 THEN assignments[1].value ELSE @,
                !.started_at = IF \E p \in DOMAIN assignments : assignments[p].col = "started_at"
                               THEN assignments[Len(assignments)].value ELSE @]

CommitAnswers(ans, assignments) ==
    [k \in DOMAIN ans |->
       IF \E p \in DOMAIN assignments : assignments[p].id = k
       THEN LET p == CHOOSE p \in DOMAIN assignments : assignments[p].id = k
            IN  [ans[k] EXCEPT !.llm_score = assignments[p].score,
                               !.llm_feedback = assignments[p].feedback]
       ELSE ans[k]]

(* get_assigned_exams up to the first "await call_together_ai": the        *)
(* overdue submission is marked submitted in the session, the ungraded     *)
(* answers are read, and the first of them is sent to the oracle.  Without *)
(* ungraded answers the handler commits at once.                           *)
SweepCall(r, s) ==
    /\ resp.reqs[r].pc = "idle"
    /\ UNCHANGED <<now, exams, answers, disputes>>
    /\ \E pick \in SweepPicks(s) :
         IF Swept(s, pick) = {}
         THEN /\ UNCHANGED submissions
              /\ resp' = InFlight([resp.reqs EXCEPT ![r] =
                            [@ EXCEPT !.handler = "sweep", !.pc = "done", !.status = 200,
                                      !.student = s]])
         ELSE \E i \in Swept(s, pick) :
                LET todo == Ascending(Ungraded({i}))
                    assignments == SweepAssignments(submissions[i])
                IN  IF todo = << >>
                    THEN /\ submissions' = [submissions EXCEPT
                                              ![i] = CommitSubmission(@, assignments)]
                         /\ resp' = InFlight([resp.reqs EXCEPT ![r] =
                                       [@ EXCEPT !.handler = "sweep", !.pc = "done",
                                                 !.status = 200, !.student = s, !.sub = i]])
                    ELSE /\ UNCHANGED submissions
                         /\ resp' = InFlight([resp.reqs EXCEPT ![r] =
                                       [@ EXCEPT !.handler = "sweep", !.pc = "await",
                                                 !.student = s, !.sub = i,
                                                 !.exam = submissions[i].exam_id,
                                                 !.rows_at_call = Len(submissions),
                                                 !.todo = todo,
                                                 !.pending_submission = assignments,
                                                 !.oracle_calls = 1]])

(* The sweep from one reply of the oracle to the next call, or to the      *)
(* commit after the last answer.                                           *)
SweepReturn(r, reply) ==
    LET c == resp.reqs[r]
        graded == IF reply.kind = "fail" THEN c.pending_answers
                  ELSE Append(c.pending_answers,
                              [id |-> Head(c.todo), score |-> GradeScore(reply),
                               feedback |-> GradeFeedback(reply)])
    IN  /\ c.handler = "sweep" /\ c.pc = "await"
        /\ now < MaxTime
        /\ now' = now + 1
        /\ UNCHANGED <<exams, disputes>>
        /\ IF Tail(c.todo) = << >>
           THEN /\ submissions' = [submissions EXCEPT
                                     ![c.sub] = CommitSubmission(@, c.pending_submission)]
                /\ answers' = CommitAnswers(answers, graded)
                /\ resp' = InFlight([resp.reqs EXCEPT ![r] =
                              [@ EXCEPT !.pc = "done", !.status = 200, !.todo = << >>,
                                        !.pending_submission = << >>,
                                        !.pending_answers = << >>]])
           ELSE /\ UNCHANGED <<submissions, answers>>
                /\ resp' = InFlight([resp.reqs EXCEPT ![r] =
                              [@ EXCEPT !.todo = Tail(c.todo), !.pending_answers = graded,
                                        !.oracle_calls = @ + 1]])

(* The store of Init, or with the assigned exam overdue since 0 *)
InitAwait ==
    /\ now = 1
    /\ \E due \in {NULL, 0} :
         exams = [e \in Exams |->
                    [due_date |-> IF e = 1 THEN due ELSE NULL, time_limit_minutes |-> NULL]]
    /\ \/ submissions = << >> /\ answers = << >>
       \/ submissions = LegacySubmissions /\ answers = LegacyAnswers
    /\ regrades = << >>
    /\ submission_regrades = << >>
    /\ assigned_disputes = << >>
    /\ resp = InFlight([r \in Requests |-> IdleRequest])

NextAwait ==
    \/ \E r \in Requests, e \in Exams, s \in Students, q \in Questions, text \in Texts :
         RecordCall(r, e, s, q, text)
    \/ \E r \in Requests, reply \in GradeReplies : RecordReturn(r, reply)
    \/ \E r \in Requests, e \in Exams, s \in Students : StartWhole(r, e, s)
    \/ \E r \in Requests, s \in Students : SweepCall(r, s)
    \/ \E r \in Requests, reply \in GradeReplies : SweepReturn(r, reply)

SpecAwait == InitAwait /\ [][NextAwait]_vars

(* C33: no request awaits the oracle while its session holds uncommitted   *)
(* assignments to a submission, an answer or a dispute row.                *)
C33_OracleCalledWithNothingPending ==
    resp.op = "await"
      => \A r \in Requests : resp.reqs[r].pc = "await" => Pending(resp.reqs[r]) = 0

----
(* The practice dispute handlers as the event loop runs them: each makes   *)
(* its existence checks, awaits the oracle, and then writes and commits.   *)
(* Student 1 disputes the submitted attempt of exam 3 in two requests.     *)

(* A dispute request: the handler (question, overall), where it is, the    *)
(* HTTP status, the submission and the answer it found, the answers as its *)
(* session loaded them before the await, and how many of them it changed.  *)
IdleDispute ==
    [handler |-> "none", pc |-> "idle", status |-> 0, sub |-> 0, answer |-> 0,
     loaded |-> << >>, changed |-> 0]

Overlapping(reqs) == [op |-> "overlap", reqs |-> reqs]

(* The flush of a commit: an UPDATE sets the columns whose value differs   *)
(* from the one the session loaded, on the rows as they are now.           *)
Flush(loaded, edited) ==
    [k \in DOMAIN answers |->
       [answers[k] EXCEPT
          !.llm_score = IF edited[k].llm_score # loaded[k].llm_score
                        THEN edited[k].llm_score ELSE @,
          !.llm_feedback = IF edited[k].llm_feedback # loaded[k].llm_feedback
                           THEN edited[k].llm_feedback ELSE @]]

Changed(loaded, edited) ==
    Cardinality({ k \in DOMAIN loaded : edited[k] # loaded[k] })

(* Variant of CommitConflicts for a table without the constraint. *)
CommitConflictsNever(i) == FALSE

(* submission_regrades.submission_id is UNIQUE: the INSERT of a second row *)
(* for a submission fails, and with it the commit.                         *)
CommitConflicts(i) ==
    \E r \in DOMAIN submission_regrades : submission_regrades[r].submission_id = i

(* _handle_question_dispute up to "await adjudicate_dispute_question" *)
QuestionDisputeCall(r, qn) ==
    /\ resp.reqs[r].pc = "idle"
    /\ UNCHANGED <<now, exams, submissions, answers, disputes>>
    /\ \E i \in FirstByStartedDesc(SubmittedOf(3, 1)) :
         IF AnswerFor(answers, i, QuestionAt(3, qn)) = {}
         THEN resp' = Overlapping([resp.reqs EXCEPT ![r] =
                        [@ EXCEPT !.handler = "question", !.pc = "done", !.status = 404,
                                  !.sub = i]])
         ELSE \E k \in AnswerFor(answers, i, QuestionAt(3, qn)) :
                resp' = Overlapping([resp.reqs EXCEPT ![r] =
                          IF OverallExists(i) \/ ExistingRegrade(k)
                          THEN [@ EXCEPT !.handler = "question", !.pc = "done",
                                         !.status = 409, !.sub = i, !.answer = k]
                          ELSE [@ EXCEPT !.handler = "question", !.pc = "await",
                                         !.sub = i, !.answer = k, !.loaded = answers]])

(* _handle_question_dispute from the oracle's reply to the commit *)
QuestionDisputeReturn(r, v) ==
    LET c == resp.reqs[r]
        parsed == AdjudicateDisputeQuestion(v, OriginalScore(c.loaded[c.answer]))
        edited == IF parsed.decision = "update"
                  THEN [c.loaded EXCEPT ![c.answer].llm_score = parsed.question_score_new,
                                        ![c.answer].llm_feedback = parsed.feedback_new]
                  ELSE c.loaded
    IN  /\ c.handler = "question" /\ c.pc = "await"
        /\ UNCHANGED <<now, exams, submissions, submission_regrades, assigned_disputes>>
        /\ IF parsed.kind = "error"
           THEN /\ UNCHANGED <<answers, regrades>>
                /\ resp' = Overlapping([resp.reqs EXCEPT ![r].pc = "done", ![r].status = 503])
           ELSE /\ regrades' = Append(regrades, NewRegrade(c.answer, parsed))
                /\ answers' = Flush(c.loaded, edited)
                /\ resp' = Overlapping([resp.reqs EXCEPT ![r].pc = "done", ![r].status = 200,
                                                         ![r].changed = Changed(c.loaded, edited)])

(* _handle_overall_dispute up to "await adjudicate_dispute_overall" *)
OverallDisputeCall(r) ==
    /\ resp.reqs[r].pc = "idle"
    /\ UNCHANGED <<now, exams, submissions, answers, disputes>>
    /\ \E i \in FirstByStartedDesc(SubmittedOf(3, 1)) :
         resp' = Overlapping([resp.reqs EXCEPT ![r] =
                   IF QuestionRegradesCount(i) > 0 \/ ExistingOverall(i)
                   THEN [@ EXCEPT !.handler = "overall", !.pc = "done", !.status = 409,
                                  !.sub = i]
                   ELSE [@ EXCEPT !.handler = "overall", !.pc = "await", !.sub = i,
                                  !.loaded = answers]])

(* _handle_overall_dispute from the oracle's reply to the commit *)
OverallDisputeReturn(r, v) ==
    LET c == resp.reqs[r]
        parsed == AdjudicateDisputeOverall(v)
        edited == ApplyUpdates(c.loaded, 3, c.sub, UpdatesApplied(v))
    IN  /\ c.handler = "overall" /\ c.pc = "await"
        /\ UNCHANGED <<now, exams, submissions, regrades, assigned_disputes>>
        /\ IF parsed.kind = "error"
           THEN /\ UNCHANGED <<answers, submission_regrades>>
                /\ resp' = Overlapping([resp.reqs EXCEPT ![r].pc = "done", ![r].status = 503])
           ELSE IF UpdateRaises(c.loaded, 3, c.sub, UpdatesApplied(v))
           THEN /\ UNCHANGED <<answers, submission_regrades>>
                /\ resp' = Overlapping([resp.reqs EXCEPT ![r].pc = "done", ![r].status = 500])
           ELSE IF CommitConflicts(c.sub)
           THEN (* db.rollback(): nothing of the request is stored *)
                /\ UNCHANGED <<answers, submission_regrades>>
                /\ resp' = Overlapping([resp.reqs EXCEPT ![r].pc = "done", ![r].status = 409,
                                                         ![r].changed = Changed(c.loaded, edited)])
           ELSE /\ answers' = Flush(c.loaded, edited)
                /\ submission_regrades' =
                     Append(submission_regrades,
                            NewSubmissionRegrade(c.sub, parsed.decision,
                                                 IntOf(ComputeSubmissionTotal(c.loaded, c.sub)),
                                                 IntOf(ComputeSubmissionTotal(edited, c.sub)),
                                                 Results(c.loaded, 3, c.sub),
                                                 Results(edited, 3, c.sub)))
                /\ resp' = Overlapping([resp.reqs EXCEPT ![r].pc = "done", ![r].status = 200,
                                                         ![r].changed = Changed(c.loaded, edited)])

InitOverlap ==
    /\ now = 2
    /\ exams = [e \in Exams |-> [due_date |-> NULL, time_limit_minutes |-> NULL]]
    /\ submissions = DisputeSubmissions
    /\ \E score \in {NULL, 3} : answers = DisputeAnswers(score)
    /\ regrades = << >>
    /\ submission_regrades = << >>
    /\ assigned_disputes = << >>
    /\ resp = Overlapping([r \in Requests |-> IdleDispute])

(* The oracle's replies to an attempt dispute: an exception, keep, and     *)
(* updates of one and of two answers                                       *)
OverlapOverallVerdicts ==
    { OverallFail,
      OverallVerdict(OverallKeys, "keep", << QuestionUpdate(1, TRUE, 3, "g") >>),
      OverallVerdict(OverallKeys, "update", << QuestionUpdate(1, TRUE, 3, "g") >>),
      OverallVerdict(OverallKeys, "update",
                     << QuestionUpdate(1, TRUE, 3, "g"), QuestionUpdate(2, TRUE, 0, "") >>) }

(* Request 1 is a question or an attempt dispute, request 2 an attempt     *)
(* dispute.                                                                *)
NextOverlap ==
    \/ \E qn \in {1, 2} : QuestionDisputeCall(1, qn)
    \/ \E v \in OracleQuestionVerdicts : QuestionDisputeReturn(1, v)
    \/ \E r \in Requests : OverallDisputeCall(r)
    \/ \E r \in Requests, v \in OverlapOverallVerdicts : OverallDisputeReturn(r, v)

SpecOverlap == InitOverlap /\ [][NextOverlap]_vars

(* C35: with a question dispute and an attempt dispute overlapping, no     *)
(* submission ends with both a regrades row and a submission_regrades row. *)
C35_MutualExclusionWhenOverlapping ==
    resp.op = "overlap"
      => \A i \in DOMAIN submissions : ~(OverallExists(i) /\ QuestionRegradesCount(i) > 0)

(* C36: with two attempt disputes overlapping, a submission never has more *)
(* than one submission_regrades row, and the request that commits second   *)
(* is answered 409 when the oracle's reply was usable and in every case    *)
(* leaves the answers and the dispute rows as they were.                   *)
C36_OneAttemptDisputeWhenOverlapping ==
    /\ [](resp.op = "overlap"
            => \A i \in DOMAIN submissions :
                 Cardinality({ r \in DOMAIN submission_regrades :
                                 submission_regrades[r].submission_id = i }) <= 1)
    /\ [][\A r \in Requests, v \in OverlapOverallVerdicts :
            (/\ OverallDisputeReturn(r, v)
             /\ \E p \in DOMAIN submission_regrades :
                  submission_regrades[p].submission_id = resp.reqs[r].sub)
              => /\ answers' = answers
                 /\ submission_regrades' = submission_regrades
                 /\ regrades' = regrades
                 /\ resp'.reqs[r].status # 200
                 /\ (v.kind # "fail" => resp'.reqs[r].status = 409)]_vars

(* Both requests were attempt disputes that passed the existence checks;   *)
(* one was stored, the other had changed an answer and was answered 409.   *)
C36_Witness ==
    /\ resp.op = "overlap"
    /\ \A r \in Requests : resp.reqs[r].handler = "overall" /\ resp.reqs[r].pc = "done"
    /\ \E r \in Requests :
         /\ resp.reqs[r].status = 409
         /\ resp.reqs[r].loaded # << >>
         /\ resp.reqs[r].changed > 0
         /\ resp.reqs[3 - r].status = 200
    /\ Len(submission_regrades) = 1

----
(* The two dispute endpoints side by side: student 1 has an attempt of the *)
(* assigned exam 1 and one of the practice exam 2, which they own; each is *)
(* in progress or submitted.  Student 2 has no attempt.                    *)

AllDisputeSubmissions(su1, su2) ==
    << NewSubmission(1, 1, 0, su1, NULL), NewSubmission(2, 1, 0, su2, NULL) >>

AllDisputeAnswers == << NewAnswer(1, 1, "a", 1, "f1"), NewAnswer(2, 4, "a", 1, "f1") >>

InitAllDisputes ==
    /\ now = 2
    /\ exams = [e \in Exams |-> [due_date |-> NULL, time_limit_minutes |-> NULL]]
    /\ \E su1 \in {NULL, 1}, su2 \in {NULL, 1} : submissions = AllDisputeSubmissions(su1, su2)
    /\ answers = AllDisputeAnswers
    /\ regrades = << >>
    /\ submission_regrades = << >>
    /\ assigned_disputes = << >>
    /\ resp = NoDisputeResp

NextAllDisputes ==
    \/ \E e \in Exams, s \in ReviewStudents, v \in OracleQuestionVerdicts :
         SubmitDispute(e, s, "question", 1, v)
    \/ \E e \in Exams, s \in ReviewStudents, v \in OracleOverallVerdicts :
         SubmitDispute(e, s, "overall", NULL, v)
    \/ \E e \in Exams, s \in ReviewStudents, qn \in {1, 2} :
         SubmitAssignedDispute(e, s, "question", qn)
    \/ \E e \in Exams, s \in ReviewStudents : SubmitAssignedDispute(e, s, "overall", NULL)
    \/ \E e \in Exams, s \in Students : SubmitExam(e, s)
    \/ \E e \in Exams, s \in Students : StartExam(e, s)

SpecAllDisputes == InitAllDisputes /\ [][NextAllDisputes]_vars

(* The submission a regrades row belongs to, through its answer *)
RegradeSubmission(r) == submissions[answers[regrades[r].answer_id].submission_id]

----
(* The handlers that store a score of the oracle, with replies whose score *)
(* is above the points of the question.                                    *)

(* grade_data of submit_response: total_score within the points of the     *)
(* question, and one half point above them                                 *)
HighGradeReplies ==
    { [kind |-> "json", total_score |-> 1, feedback |-> "f1"],
      [kind |-> "json", total_score |-> PointsPossible(5) + 1, feedback |-> "f2"] }

HighQuestionVerdicts ==
    { VerdictFail,
      QuestionVerdict(QuestionKeys, "keep", 1, 1),
      QuestionVerdict(QuestionKeys, "update", 1, PointsPossible(5) + 1) }

HighOverallVerdicts ==
    { OverallFail,
      OverallVerdict(OverallKeys, "update",
                     << QuestionUpdate(1, TRUE, PointsPossible(5) + 1, "g") >>) }

NextScores ==
    \/ \E s \in Students, q \in ExamQuestions(3), reply \in HighGradeReplies :
         RecordAnswer(3, s, q, "a", reply)
    \/ \E s \in Students, qn \in {1, 2}, v \in HighQuestionVerdicts :
         SubmitDispute(3, s, "question", qn, v)
    \/ \E s \in Students, v \in HighOverallVerdicts :
         SubmitDispute(3, s, "overall", NULL, v)

SpecScores == InitDispute /\ [][NextScores]_vars

(* C38: the llm_score of every graded answer lies between 0 and the        *)
(* points_possible of its question.                                        *)
C38_OracleScoreInRange ==
    \A k \in DOMAIN answers :
      answers[k].llm_score # NULL
        => /\ answers[k].llm_score >= 0
           /\ answers[k].llm_score <= PointsPossible(answers[k].question_id)

----
(* The columns of an answer that no dispute writes *)
SameButOracleColumns(a, b) ==
    /\ a.submission_id = b.submission_id
    /\ a.question_id = b.question_id
    /\ a.student_answer = b.student_answer
    /\ a.instructor_edited = b.instructor_edited
    /\ a.instructor_score = b.instructor_score

(* C39: a practice dispute leaves the submissions and, in every answer,    *)
(* all but llm_score and llm_feedback as they were.  A question dispute    *)
(* changes no answer but the disputed one; an attempt dispute changes only *)
(* answers of the disputed submission to questions that an entry of        *)
(* question_updates names.                                                 *)
C39_DisputeFrame ==
    [][/\ resp'.op = "dispute"
         => /\ submissions' = submissions
            /\ DOMAIN answers' = DOMAIN answers
            /\ \A k \in DOMAIN answers :
                 /\ SameButOracleColumns(answers'[k], answers[k])
                 /\ answers'[k] # answers[k]
                      => /\ answers[k].submission_id = resp'.sub
                         /\ resp'.target = "question" => k = resp'.answer
       /\ \A s \in Students, v \in OverallVerdicts :
            (answers' # answers /\ SubmitDispute(3, s, "overall", NULL, v))
              => \A k \in DOMAIN answers :
                   answers'[k] # answers[k]
                     => \E p \in DOMAIN v.question_updates :
                          /\ v.question_updates[p].question_number
                               \in 1..Cardinality(ExamQuestions(3))
                          /\ answers[k].question_id
                               = QuestionAt(3, v.question_updates[p].question_number)]_vars

(* An attempt dispute has just changed an answer of the disputed           *)
(* submission while another submission holds an answer to the same         *)
(* question.                                                               *)
C39_Witness ==
    /\ resp.op = "dispute" /\ resp.status = 200 /\ resp.target = "overall"
    /\ resp.decision = "update"
    /\ resp.new_total # resp.old_total
    /\ \E k \in DOMAIN answers, j \in DOMAIN answers :
         /\ answers[k].submission_id = resp.sub
         /\ answers[j].submission_id # resp.sub
         /\ answers[j].question_id = answers[k].question_id
         /\ answers[k].llm_feedback = "g"
         /\ answers[j].llm_feedback = "f1"

----
(* The extraction of replies that parse only after a repair: a string in   *)
(* an object or an array, followed by a trailing comma or holding a        *)
(* control character.                                                      *)

RepairAlphabet == {"a", ",", "}", "]", " ", FormFeed}

(* The content of the string: up to two characters *)
RepairContents ==
    { << >> } \cup { << c >> : c \in RepairAlphabet }
              \cup { << c, d >> : c \in RepairAlphabet, d \in RepairAlphabet }

RepairShapes == {"object", "array", "member"}

(* The oracle's text: the string as a member followed by a comma, as an    *)
(* element followed by a comma, or as a member of a well-formed object     *)
RepairText(shape, content) ==
    IF shape = "object"
    THEN << "{" >> \o Str(<< "a" >>) \o << ":" >> \o Str(content) \o << ",", "}" >>
    ELSE IF shape = "array"
    THEN << "[" >> \o Str(content) \o << ",", " ", "]" >>
    ELSE Obj(Str(content))

(* The string values the text holds, in order *)
RepairStrings(shape, content) ==
    IF shape = "array" THEN << content >> ELSE << << "a" >>, content >>

InitRepair ==
    /\ now = 0
    /\ exams = [e \in Exams |-> [due_date |-> NULL, time_limit_minutes |-> NULL]]
    /\ submissions = << >>
    /\ answers = << >>
    /\ regrades = << >>
    /\ submission_regrades = << >>
    /\ assigned_disputes = << >>
    /\ \E shape \in RepairShapes, content \in RepairContents :
         resp = [op |-> "repair", done |-> 0, shape |-> shape, content |-> content,
                 text |-> RepairText(shape, content),
                 strings |-> RepairStrings(shape, content),
                 result |-> NotExtracted]

ExtractRepaired ==
    /\ resp.done = 0
    /\ resp' = [resp EXCEPT !.done = 1, !.result = ExtractJsonFromResponse(resp.text)]
    /\ UNCHANGED <<now, exams, submissions, answers, disputes>>

NextRepair == ExtractRepaired

SpecRepair == InitRepair /\ [][NextRepair]_vars

(* The string values of a structure, in order *)
RECURSIVE StringValues(_, _)
StringValues(s, i) ==
    IF i > Len(s) THEN << >>
    ELSE IF s[i] = Quote
    THEN IF StringBody(s, i + 1) = 0 THEN << >>
         ELSE << SubSeq(s, i + 1, StringBody(s, i + 1) - 2) >>
                \o StringValues(s, StringBody(s, i + 1))
    ELSE StringValues(s, i + 1)

(* C40: when the text parses only after a repair, the strings of the       *)
(* structure returned are the strings of the text.                         *)
C40_RepairKeepsStrings ==
    (/\ resp.op = "repair" /\ resp.done = 1
     /\ resp.result.kind = "ok"
     /\ JsonLoads(resp.text).kind # "ok")
      => StringValues(resp.result.value, 1) = resp.strings

====
